---- MODULE Spec2Model ----
(***************************************************************************)
(* Model of the openmetrics-parser crate: the metric family assembler      *)
(* (process_new_metric), the post-assembly validator, the parse drivers    *)
(* parse_openmetrics / parse_prometheus and the public MetricFamily        *)
(* operations.                                                             *)
(*                                                                         *)
(* Conventions.  Option<T> is a sequence of length 0 (None) or 1 (Some).   *)
(* A metric or sample name is a sequence of atoms, a base atom followed by *)
(* suffix atoms: <<"x", "_total">> is the string "x_total".  An f64 is a   *)
(* record: a finite value counted in halves, an infinity or NaN.           *)
(***************************************************************************)
EXTENDS Integers, Sequences, FiniteSets, TLC

\* ------------------------------------------------------------------------
\* Option<T>
\* ------------------------------------------------------------------------
None == <<>>

Some(v) == <<v>>

is_some(o) == Len(o) = 1

is_none(o) == Len(o) = 0

unwrap(o) == o[1]

\* ------------------------------------------------------------------------
\* f64 and MetricNumber
\* ------------------------------------------------------------------------
\* A finite f64 holding h/2.
Fin(h) == [k |-> "fin", h |-> h]

NaN == [k |-> "nan", h |-> 0]

INFINITY == [k |-> "inf", h |-> 1]

NEG_INFINITY == [k |-> "inf", h |-> -1]

is_nan(f) == f.k = "nan"

\* Position of a non-NaN f64 on the extended real line, in halves.
FKey(f) == IF f.k = "inf" THEN f.h * 1000000 ELSE f.h

\* IEEE-754 comparisons: every comparison with NaN is false.
FLt(a, b) == ~is_nan(a) /\ ~is_nan(b) /\ FKey(a) < FKey(b)

FGe(a, b) == ~is_nan(a) /\ ~is_nan(b) /\ FKey(a) >= FKey(b)

FGt(a, b) == FLt(b, a)

FEq(a, b) == ~is_nan(a) /\ ~is_nan(b) /\ FKey(a) = FKey(b)

Int_(i) == [tag |-> "Int", i |-> i]

Float_(f) == [tag |-> "Float", f |-> f]

as_f64(m) == IF m.tag = "Int" THEN Fin(2 * m.i) ELSE m.f

\* MetricNumber::as_i64: an Int as it is, a Float only when it has no
\* fractional part (NaN never has: NaN.round() == NaN is false).  Metric
\* values are drawn finite or NaN.
as_i64(m) ==
    IF m.tag = "Int" THEN Some(m.i)
    ELSE IF m.f.k = "fin" /\ m.f.h % 2 = 0 THEN Some(m.f.h \div 2)
    ELSE None

\* str::parse::<f64>() on the label values the model uses.
ParseF64(s) ==
    CASE s = "1" -> Some(Fin(2))
      [] s = "2" -> Some(Fin(4))
      [] s = "-1" -> Some(Fin(-2))
      [] s = "0.5" -> Some(Fin(1))
      [] s = "+Inf" -> Some(INFINITY)
      [] s = "inf" -> Some(INFINITY)
      [] s = "NaN" -> Some(NaN)
      [] OTHER -> None

\* ------------------------------------------------------------------------
\* Names as atom sequences
\* ------------------------------------------------------------------------
Last(s) == s[Len(s)]

Front(s) == SubSeq(s, 1, Len(s) - 1)

\* str::ends_with: the empty suffix matches every name; the atom "_bucket"
\* ends with "bucket".
ends_with(name, suffix) ==
    \/ suffix = ""
    \/ /\ Len(name) > 0
       /\ \/ Last(name) = suffix
          \/ suffix = "bucket" /\ Last(name) = "_bucket"

\* str::trim_end_matches: removes every trailing repetition of the suffix.
RECURSIVE trim_end_matches(_, _)
trim_end_matches(name, suffix) ==
    IF suffix # "" /\ Len(name) > 0 /\ Last(name) = suffix
    THEN trim_end_matches(Front(name), suffix)
    ELSE name

\* ------------------------------------------------------------------------
\* Sequence helpers (Vec operations)
\* ------------------------------------------------------------------------
contains(s, x) == \E i \in 1..Len(s) : s[i] = x

\* Iterator::position: 0 when absent, else the first index (1-based).
position(s, x) ==
    IF contains(s, x) THEN CHOOSE i \in 1..Len(s) : s[i] = x /\ \A j \in 1..(i - 1) : s[j] # x
    ELSE 0

\* Vec::remove(index)
remove(s, i) == SubSeq(s, 1, i - 1) \o SubSeq(s, i + 1, Len(s))

RECURSIVE filter_not_in(_, _)
filter_not_in(s, ignored) ==
    IF s = <<>> THEN <<>>
    ELSE (IF contains(ignored, Head(s)) THEN <<>> ELSE <<Head(s)>>)
         \o filter_not_in(Tail(s), ignored)

\* Byte order of the label names the model uses (sort key of parse_labels).
LabelRank(n) ==
    CASE n = "a" -> 1
      [] n = "b" -> 2
      [] n = "le" -> 3
      [] n = "quantile" -> 4
      [] OTHER -> 5

\* Stable insertion of a (name, value) pair into a list sorted by name.
RECURSIVE InsertSorted(_, _)
InsertSorted(sorted, p) ==
    IF sorted = <<>> THEN <<p>>
    ELSE IF LabelRank(p[1]) < LabelRank(Head(sorted)[1]) THEN <<p>> \o sorted
    ELSE <<Head(sorted)>> \o InsertSorted(Tail(sorted), p)

RECURSIVE sort_by_key(_)
sort_by_key(labels) ==
    IF labels = <<>> THEN <<>>
    ELSE InsertSorted(sort_by_key(Front(labels)), Last(labels))

\* Mutant of parse_labels: the pairs stay in the order of the line.
parse_labels_unsorted(raw) ==
    IF \E i, j \in 1..Len(raw) : i < j /\ raw[i][1] = raw[j][1]
    THEN [ok |-> FALSE, labels |-> <<>>]
    ELSE [ok |-> TRUE, labels |-> raw]

\* parse_labels: a label name seen twice is an error, otherwise the pairs
\* sorted by name.
parse_labels(raw) ==
    IF \E i, j \in 1..Len(raw) : i < j /\ raw[i][1] = raw[j][1]
    THEN [ok |-> FALSE, labels |-> <<>>]
    ELSE [ok |-> TRUE, labels |-> sort_by_key(raw)]

\* ------------------------------------------------------------------------
\* Type policy (trait MetricsType) of the two formats
\* ------------------------------------------------------------------------
\* TryFrom<&str> for OpenMetricsType / PrometheusType: None is the
\* "Invalid metric type" error.
type_try_from(fmt, word) ==
    CASE word = "counter" -> Some("Counter")
      [] word = "gauge" -> Some("Gauge")
      [] word = "histogram" -> Some("Histogram")
      [] word = "summary" -> Some("Summary")
      [] word = "unknown" -> Some("Unknown")
      [] word = "gaugehistogram" /\ fmt = "om" -> Some("GaugeHistogram")
      [] word = "stateset" /\ fmt = "om" -> Some("StateSet")
      [] word = "info" /\ fmt = "om" -> Some("Info")
      [] OTHER -> None

\* Default for OpenMetricsType / PrometheusType
default_type == "Unknown"

unwrap_or_default(o) == IF is_some(o) THEN unwrap(o) ELSE default_type

\* Mutant of can_have_exemplar: every type and name may carry an exemplar.
can_have_exemplar_always(ty, metric_name) == TRUE

can_have_exemplar(ty, metric_name) ==
    CASE ty = "Counter" -> ends_with(metric_name, "_total")
      [] ty \in {"Histogram", "GaugeHistogram"} -> ends_with(metric_name, "_bucket")
      [] OTHER -> FALSE

\* OpenMetrics tests the name against "bucket", Prometheus against "_bucket".
get_ignored_labels(fmt, ty, metric_name) ==
    IF /\ ty \in {"Histogram", "GaugeHistogram"}
       /\ ends_with(metric_name, IF fmt = "om" THEN "bucket" ELSE "_bucket")
    THEN <<"le">>
    ELSE <<>>

is_allowed_units(ty) == ty \in {"Counter", "Unknown", "Gauge"}

\* Mutant of can_have_multiple_lines: every type takes several lines.
can_have_multiple_lines_always(ty) == TRUE

can_have_multiple_lines(ty) == ty \in {"Counter", "GaugeHistogram", "Histogram", "Summary"}

HistogramValue_default == [sum |-> None, count |-> None, timestamp |-> None, buckets |-> <<>>]

SummaryValue_default == [sum |-> None, count |-> None, timestamp |-> None, quantiles |-> <<>>]

CounterValueMarshal_default == [value |-> None, created |-> None, exemplar |-> None]

\* Mutant of get_type_value: the fresh value is the Unknown variant for
\* every type.
get_type_value_unknown(ty) == [kind |-> "Unknown", n |-> None]

\* get_type_value: the fresh MetricValueMarshal of a type.
get_type_value(ty) ==
    CASE ty = "Histogram" -> [kind |-> "Histogram", h |-> HistogramValue_default]
      [] ty = "GaugeHistogram" -> [kind |-> "GaugeHistogram", h |-> HistogramValue_default]
      [] ty = "Counter" -> [kind |-> "Counter", c |-> CounterValueMarshal_default]
      [] ty = "Unknown" -> [kind |-> "Unknown", n |-> None]
      [] ty = "Gauge" -> [kind |-> "Gauge", n |-> None]
      [] ty = "StateSet" -> [kind |-> "StateSet", n |-> None]
      [] ty = "Summary" -> [kind |-> "Summary", s |-> SummaryValue_default]
      [] ty = "Info" -> [kind |-> "Info"]

\* ------------------------------------------------------------------------
\* LabelNames and MetricMarshal
\* ------------------------------------------------------------------------
LabelNames_new(fmt, sample_name, metric_type, labels) ==
    [names |-> filter_not_in(labels, get_ignored_labels(fmt, metric_type, sample_name)),
     metric_type |-> metric_type]

\* Mutant of LabelNames_matches: any label names match.
LabelNames_matches_any(fmt, self, sample_name, other_labels) == TRUE

LabelNames_matches(fmt, self, sample_name, other_labels) ==
    LET ignored_labels == get_ignored_labels(fmt, self.metric_type, sample_name)
    IN \A i \in 1..Len(self.names) :
          ~(~contains(ignored_labels, self.names[i]) /\ ~contains(other_labels.names, self.names[i]))

MetricMarshal_new(label_values, timestamp, value) ==
    [label_values |-> label_values, timestamp |-> timestamp, value |-> value]

\* ------------------------------------------------------------------------
\* The per-(type, suffix) handlers of process_new_metric
\* ------------------------------------------------------------------------
HRes(res, metric) == [res |-> res, metric |-> metric]

\* "_bucket" of Histogram (kind = "Histogram") and GaugeHistogram.
handle_bucket(kind, m, metric_value, label_names, label_values, exemplar) ==
    LET bound == ParseF64(label_values[position(label_names, "le")])
    IN IF is_none(bound) THEN HRes("InvalidMetric", m)
       ELSE IF m.value.kind # kind THEN HRes("Panic", m)
       ELSE HRes("Ok", [m EXCEPT !.value.h.buckets =
                           Append(@, [count |-> metric_value,
                                      upper_bound |-> unwrap(bound),
                                      exemplar |-> exemplar])])

\* "_count" of Histogram, "_gcount" of GaugeHistogram.
handle_hist_count(kind, m, metric_value) ==
    IF m.value.kind # kind THEN HRes("Panic", m)
    ELSE IF is_none(as_i64(metric_value)) THEN HRes("InvalidMetric", m)
    ELSE IF unwrap(as_i64(metric_value)) < 0 THEN HRes("InvalidMetric", m)
    ELSE IF is_some(m.value.h.count) THEN HRes("DuplicateMetric", m)
    ELSE HRes("Ok", [m EXCEPT !.value.h.count = Some(unwrap(as_i64(metric_value)))])

\* "_created" of Histogram.
handle_hist_created(m, metric_value) ==
    IF m.value.kind # "Histogram" THEN HRes("Panic", m)
    ELSE IF is_some(m.value.h.timestamp) THEN HRes("DuplicateMetric", m)
    ELSE HRes("Ok", [m EXCEPT !.value.h.timestamp = Some(as_f64(metric_value))])

\* "_sum" of Histogram, "_gsum" of GaugeHistogram.
handle_hist_sum(kind, m, metric_value) ==
    IF m.value.kind # kind THEN HRes("Panic", m)
    ELSE IF is_some(m.value.h.sum) THEN HRes("DuplicateMetric", m)
    ELSE HRes("Ok", [m EXCEPT !.value.h.sum = Some(metric_value)])

\* Mutant of handle_counter_total: the value is stored whatever its sign.
handle_counter_total_unchecked(m, metric_value) ==
    IF m.value.kind # "Counter" THEN HRes("Panic", m)
    ELSE IF is_some(m.value.c.value) THEN HRes("DuplicateMetric", m)
    ELSE HRes("Ok", [m EXCEPT !.value.c.value = Some(metric_value)])

\* Counter total: "_total" in OpenMetrics, the bare name in Prometheus.
handle_counter_total(m, metric_value) ==
    IF m.value.kind # "Counter" THEN HRes("Panic", m)
    ELSE IF is_some(m.value.c.value) THEN HRes("DuplicateMetric", m)
    ELSE IF FLt(as_f64(metric_value), Fin(0)) \/ is_nan(as_f64(metric_value))
         THEN HRes("InvalidMetric", m)
    ELSE HRes("Ok", [m EXCEPT !.value.c.value = Some(metric_value)])

\* Counter "_created" (OpenMetrics only).
handle_counter_created(m, metric_value) ==
    IF m.value.kind # "Counter" THEN HRes("Panic", m)
    ELSE IF is_some(m.value.c.created) THEN HRes("DuplicateMetric", m)
    ELSE HRes("Ok", [m EXCEPT !.value.c.created = Some(as_f64(metric_value))])

\* Mutant of handle_scalar: a stored value is replaced by the new one.
handle_scalar_overwriting(kind, m, metric_value) ==
    IF m.value.kind # kind THEN HRes("Panic", m)
    ELSE HRes("Ok", [m EXCEPT !.value = [kind |-> kind, n |-> Some(metric_value)]])

\* Gauge and Unknown: the bare name.
handle_scalar(kind, m, metric_value) ==
    IF m.value.kind # kind THEN HRes("Panic", m)
    ELSE IF is_some(m.value.n) THEN HRes("DuplicateMetric", m)
    ELSE HRes("Ok", [m EXCEPT !.value = [kind |-> kind, n |-> Some(metric_value)]])

\* Mutant of handle_stateset: labels and value are not tested.
handle_stateset_unchecked(m, metric_value) ==
    IF m.value.kind # "StateSet" THEN HRes("Panic", m)
    ELSE IF is_some(m.value.n) THEN HRes("DuplicateMetric", m)
    ELSE HRes("Ok", [m EXCEPT !.value = [kind |-> "StateSet", n |-> Some(metric_value)]])

\* StateSet: the bare name.
handle_stateset(m, metric_value) ==
    IF m.value.kind # "StateSet" THEN HRes("Panic", m)
    ELSE IF is_some(m.value.n) THEN HRes("DuplicateMetric", m)
    ELSE IF Len(m.label_values) = 0 THEN HRes("InvalidMetric", m)
    ELSE IF ~FEq(as_f64(metric_value), Fin(0)) /\ ~FEq(as_f64(metric_value), Fin(2))
         THEN HRes("InvalidMetric", m)
    ELSE HRes("Ok", [m EXCEPT !.value = [kind |-> "StateSet", n |-> Some(metric_value)]])

\* Mutant of handle_info: a line for an existing sample is taken too.
handle_info_repeatable(m, metric_value, created) ==
    IF is_none(as_i64(metric_value)) THEN HRes("InvalidMetric", m)
    ELSE IF unwrap(as_i64(metric_value)) # 1 THEN HRes("InvalidMetric", m)
    ELSE HRes("Ok", m)

\* Info "_info".
handle_info(m, metric_value, created) ==
    IF is_none(as_i64(metric_value)) THEN HRes("InvalidMetric", m)
    ELSE IF unwrap(as_i64(metric_value)) # 1 THEN HRes("InvalidMetric", m)
    ELSE IF ~created THEN HRes("DuplicateMetric", m)
    ELSE HRes("Ok", m)

\* Summary "_count".
handle_summary_count(m, metric_value) ==
    IF m.value.kind # "Summary" THEN HRes("Panic", m)
    ELSE IF is_none(as_i64(metric_value)) THEN HRes("InvalidMetric", m)
    ELSE IF unwrap(as_i64(metric_value)) < 0 THEN HRes("InvalidMetric", m)
    ELSE IF is_some(m.value.s.count) THEN HRes("DuplicateMetric", m)
    ELSE HRes("Ok", [m EXCEPT !.value.s.count = Some(unwrap(as_i64(metric_value)))])

\* Summary "_sum".
handle_summary_sum(m, metric_value) ==
    IF FLt(as_f64(metric_value), Fin(0)) \/ is_nan(as_f64(metric_value))
    THEN HRes("InvalidMetric", m)
    ELSE IF m.value.kind # "Summary" THEN HRes("Panic", m)
    ELSE IF is_some(m.value.s.sum) THEN HRes("DuplicateMetric", m)
    ELSE HRes("Ok", [m EXCEPT !.value.s.sum = Some(metric_value)])

\* Summary bare name with the mandatory "quantile" label.
handle_summary_quantile(m, metric_value, label_names, label_values) ==
    LET bound == ParseF64(label_values[position(label_names, "quantile")])
    IN IF ~is_nan(as_f64(metric_value)) /\ FLt(as_f64(metric_value), Fin(0))
       THEN HRes("InvalidMetric", m)
       ELSE IF is_none(bound) THEN HRes("InvalidMetric", m)
       ELSE IF FLt(unwrap(bound), Fin(0)) \/ FGt(unwrap(bound), Fin(2)) \/ is_nan(unwrap(bound))
            THEN HRes("InvalidMetric", m)
       ELSE IF m.value.kind # "Summary" THEN HRes("Panic", m)
       ELSE HRes("Ok", [m EXCEPT !.value.s.quantiles =
                           Append(@, [quantile |-> unwrap(bound), value |-> metric_value])])

Action(suffix, mandatory, h) == [suffix |-> suffix, mandatory |-> mandatory, h |-> h]

\* The `handlers` table: for each type, its (suffix, mandatory labels,
\* handler) entries in list order.
handlers(fmt, ty) ==
    CASE ty = "Histogram" ->
            << Action("_bucket", <<"le">>, "bucket"), Action("_count", <<>>, "hist_count"),
               Action("_created", <<>>, "hist_created"), Action("_sum", <<>>, "hist_sum") >>
      [] ty = "GaugeHistogram" /\ fmt = "om" ->
            << Action("_bucket", <<"le">>, "gbucket"), Action("_gcount", <<>>, "ghist_count"),
               Action("_gsum", <<>>, "ghist_sum") >>
      [] ty = "Counter" /\ fmt = "om" ->
            << Action("_total", <<>>, "counter_total"),
               Action("_created", <<>>, "counter_created") >>
      [] ty = "Counter" /\ fmt = "prom" -> << Action("", <<>>, "counter_total") >>
      [] ty = "Gauge" -> << Action("", <<>>, "gauge") >>
      [] ty = "StateSet" /\ fmt = "om" -> << Action("", <<>>, "stateset") >>
      [] ty = "Unknown" -> << Action("", <<>>, "unknown") >>
      [] ty = "Info" /\ fmt = "om" -> << Action("_info", <<>>, "info") >>
      [] ty = "Summary" ->
            << Action("_count", <<>>, "summary_count"), Action("_sum", <<>>, "summary_sum"),
               Action("", <<"quantile">>, "summary_quantile") >>
      [] OTHER -> <<>>

\* action.0(existing_metric, metric_value, label_names, label_values,
\* exemplar, created)
run_handler(h, m, metric_value, label_names, label_values, exemplar, created) ==
    CASE h = "bucket" -> handle_bucket("Histogram", m, metric_value, label_names, label_values, exemplar)
      [] h = "gbucket" -> handle_bucket("GaugeHistogram", m, metric_value, label_names, label_values, exemplar)
      [] h = "hist_count" -> handle_hist_count("Histogram", m, metric_value)
      [] h = "ghist_count" -> handle_hist_count("GaugeHistogram", m, metric_value)
      [] h = "hist_created" -> handle_hist_created(m, metric_value)
      [] h = "hist_sum" -> handle_hist_sum("Histogram", m, metric_value)
      [] h = "ghist_sum" -> handle_hist_sum("GaugeHistogram", m, metric_value)
      [] h = "counter_total" -> handle_counter_total(m, metric_value)
      [] h = "counter_created" -> handle_counter_created(m, metric_value)
      [] h = "gauge" -> handle_scalar("Gauge", m, metric_value)
      [] h = "unknown" -> handle_scalar("Unknown", m, metric_value)
      [] h = "stateset" -> handle_stateset(m, metric_value)
      [] h = "info" -> handle_info(m, metric_value, created)
      [] h = "summary_count" -> handle_summary_count(m, metric_value)
      [] h = "summary_sum" -> handle_summary_sum(m, metric_value)
      [] h = "summary_quantile" -> handle_summary_quantile(m, metric_value, label_names, label_values)

\* ------------------------------------------------------------------------
\* MetricFamilyMarshal
\* ------------------------------------------------------------------------
MetricFamilyMarshal_empty ==
    [name |-> None, label_names |-> None, family_type |-> None,
     help |-> None, unit |-> None, metrics |-> <<>>]

FRes(res, family) == [res |-> res, family |-> family]

\* Mutant of get_metric_by_labelset_mut: the lookup never finds a metric.
get_metric_by_labelset_never(family, label_values) == 0

\* Index of the first metric with these label values, 0 when there is none.
get_metric_by_labelset_mut(family, label_values) ==
    LET hits == {i \in 1..Len(family.metrics) : family.metrics[i].label_values = label_values}
    IN IF hits = {} THEN 0 ELSE CHOOSE i \in hits : \A j \in hits : i <= j

add_metric(family, metric) == [family EXCEPT !.metrics = Append(@, metric)]

\* Mutant of try_set_label_names: the label names are never stored.
try_set_label_names_unset(fmt, family, sample_name, names) == FRes("Ok", family)

try_set_label_names(fmt, family, sample_name, names) ==
    IF is_none(family.label_names)
    THEN FRes("Ok", [family EXCEPT !.label_names = Some(names)])
    ELSE IF ~LabelNames_matches(fmt, unwrap(family.label_names), sample_name, names)
    THEN FRes("InvalidMetric", family)
    ELSE FRes("Ok", family)

\* Mutant of set_or_test_name: the name is set whatever the family has.
set_or_test_name_any(family, name) == FRes("Ok", [family EXCEPT !.name = Some(name)])

set_or_test_name(family, name) ==
    IF is_some(family.name) /\ family.name # Some(name)
    THEN FRes("InvalidMetric", family)
    ELSE FRes("Ok", [family EXCEPT !.name = Some(name)])

\* Mutant of try_add_help: a help that is set is replaced.
try_add_help_overwriting(family, help) == FRes("Ok", [family EXCEPT !.help = Some(help)])

try_add_help(family, help) ==
    IF is_some(family.help) THEN FRes("InvalidMetric", family)
    ELSE FRes("Ok", [family EXCEPT !.help = Some(help)])

\* OpenMetrics only.
try_add_unit(family, unit) ==
    IF is_some(family.unit) THEN FRes("InvalidMetric", family)
    ELSE IF ~is_allowed_units(unwrap_or_default(family.family_type))
    THEN FRes("InvalidMetric", family)
    ELSE FRes("Ok", [family EXCEPT !.unit = Some(unit)])

try_add_type(family, family_type) ==
    IF is_some(family.family_type) THEN FRes("InvalidMetric", family)
    ELSE FRes("Ok", [family EXCEPT !.family_type = Some(family_type)])

\* Mutant of take_mandatory_labels: a present label stays among the
\* sample's label names and values.
take_mandatory_labels_kept(mandatory_labels, label_names, actual_names, actual_values) ==
    [ok |-> \A i \in 1..Len(mandatory_labels) : contains(label_names, mandatory_labels[i]),
     names |-> actual_names, values |-> actual_values]

\* The loop over an action's mandatory labels: a missing one is an error,
\* a present one is removed from the sample's label names and values.
RECURSIVE take_mandatory_labels(_, _, _, _)
take_mandatory_labels(mandatory_labels, label_names, actual_names, actual_values) ==
    IF mandatory_labels = <<>>
    THEN [ok |-> TRUE, names |-> actual_names, values |-> actual_values]
    ELSE IF ~contains(label_names, Head(mandatory_labels))
    THEN [ok |-> FALSE, names |-> actual_names, values |-> actual_values]
    ELSE LET index == position(actual_names, Head(mandatory_labels))
         IN take_mandatory_labels(Tail(mandatory_labels), label_names,
                                  remove(actual_names, index), remove(actual_values, index))

\* Mutant of timestamp_match: every line is handed to the handler.
timestamp_match_never(metric_timestamp, timestamp, metric_type) == "Use"

\* The match on the stored and the new timestamp of a metric that exists.
\* "Err": error, "Skip": return Ok(()) without calling the handler,
\* "Use": hand the stored metric to the handler.
timestamp_match(metric_timestamp, timestamp, metric_type) ==
    IF /\ is_some(metric_timestamp) /\ is_some(timestamp)
       /\ FLt(unwrap(timestamp), unwrap(metric_timestamp))
    THEN "Err"
    ELSE IF is_some(metric_timestamp) # is_some(timestamp)
    THEN "Err"
    ELSE IF /\ is_some(metric_timestamp) /\ is_some(timestamp)
            /\ FGe(unwrap(timestamp), unwrap(metric_timestamp))
            /\ ~can_have_multiple_lines(metric_type)
    THEN "Skip"
    ELSE "Use"

\* Mutant of first_action: the first entry of the list, whatever the name.
first_action_any(fmt, metric_type, metric_name) ==
    IF Len(handlers(fmt, metric_type)) = 0 THEN 0 ELSE 1

\* Mutant of first_action: the last entry whose suffix ends the name.
first_action_last(fmt, metric_type, metric_name) ==
    LET acts == handlers(fmt, metric_type)
        hits == {i \in 1..Len(acts) : ends_with(metric_name, acts[i].suffix)}
    IN IF hits = {} THEN 0 ELSE CHOOSE i \in hits : \A j \in hits : i >= j

\* First entry of the type's handler list whose suffix ends the name, 0
\* when none does.
first_action(fmt, metric_type, metric_name) ==
    LET acts == handlers(fmt, metric_type)
        hits == {i \in 1..Len(acts) : ends_with(metric_name, acts[i].suffix)}
    IN IF hits = {} THEN 0 ELSE CHOOSE i \in hits : \A j \in hits : i <= j

\* process_new_metric from the selected action up to the lookup: the
\* mandatory labels, the label names and the family name.  On "Ok", values
\* are the label values the metric is looked up by.
before_lookup(fmt, family, act, metric_type, metric_name, label_names, label_values) ==
    LET actual == take_mandatory_labels(act.mandatory, label_names, label_names, label_values)
        named == try_set_label_names(fmt, family, metric_name,
                     LabelNames_new(fmt, metric_name, metric_type, actual.names))
        trimmed == trim_end_matches(metric_name, act.suffix)
        f1 == named.family
    IN IF ~actual.ok THEN [res |-> "InvalidMetric", family |-> family, values |-> <<>>]
       ELSE IF named.res # "Ok" THEN [res |-> named.res, family |-> f1, values |-> <<>>]
       ELSE IF is_some(f1.name) /\ unwrap(f1.name) # trimmed
            THEN [res |-> "InvalidMetric", family |-> f1, values |-> <<>>]
       ELSE [res |-> "Ok",
             family |-> IF is_none(f1.name) THEN [f1 EXCEPT !.name = Some(trimmed)] ELSE f1,
             values |-> actual.values]

\* Body of process_new_metric once the action is selected.
apply_action(fmt, family, act, metric_type, metric_name, metric_value, label_names, label_values, timestamp, exemplar) ==
    LET pre == before_lookup(fmt, family, act, metric_type, metric_name,
                             label_names, label_values)
        f2 == pre.family
        found == get_metric_by_labelset_mut(f2, pre.values)
        f3 == IF found = 0
              THEN add_metric(f2, MetricMarshal_new(pre.values, timestamp,
                                   get_type_value(unwrap_or_default(f2.family_type))))
              ELSE f2
        \* the lookup after the push finds the pushed metric: no earlier one
        \* has these label values
        index == IF found = 0 THEN Len(f3.metrics) ELSE found
        verdict == IF found = 0 THEN "Use"
                   ELSE timestamp_match(f2.metrics[found].timestamp, timestamp, metric_type)
        hres == run_handler(act.h, f3.metrics[index], metric_value,
                            label_names, label_values, exemplar, found = 0)
    IN IF pre.res # "Ok" THEN FRes(pre.res, f2)
       ELSE IF verdict = "Err" THEN FRes("InvalidMetric", f2)
       ELSE IF verdict = "Skip" THEN FRes("Ok", f2)
       ELSE FRes(hres.res, [f3 EXCEPT !.metrics[index] = hres.metric])

process_new_metric(fmt, family, metric_name, metric_value, label_names, label_values, timestamp, exemplar) ==
    LET metric_type == unwrap_or_default(family.family_type)
        i == first_action(fmt, metric_type, metric_name)
    IN IF ~can_have_exemplar(metric_type, metric_name) /\ is_some(exemplar)
       THEN FRes("InvalidMetric", family)
       ELSE IF i = 0 THEN FRes("InvalidMetric", family)
       ELSE apply_action(fmt, family, handlers(fmt, metric_type)[i], metric_type,
                         metric_name, metric_value, label_names, label_values,
                         timestamp, exemplar)

\* ------------------------------------------------------------------------
\* Validation of a finished family
\* ------------------------------------------------------------------------
has_inf_bucket(buckets) ==
    \E i \in 1..Len(buckets) : FEq(buckets[i].upper_bound, INFINITY)

has_negative_bucket(buckets) ==
    \E i \in 1..Len(buckets) : FLt(buckets[i].upper_bound, Fin(0))

\* The cumulative check: `last` starts at -inf and follows the counts.
buckets_cumulative(buckets) ==
    \A i \in 1..Len(buckets) :
        ~FLt(as_f64(buckets[i].count),
             IF i = 1 THEN NEG_INFINITY ELSE as_f64(buckets[i - 1].count))

\* Mutant of validate_histogram: sum and count need not come together.
validate_histogram_unpaired(value) ==
    LET hv == value.h
        gauge_histogram == value.kind = "GaugeHistogram"
    IN IF Len(hv.buckets) = 0 THEN "InvalidMetric"
       ELSE IF ~has_inf_bucket(hv.buckets) THEN "InvalidMetric"
       ELSE IF has_negative_bucket(hv.buckets) /\ is_some(hv.sum) /\ ~gauge_histogram
            THEN "InvalidMetric"
       ELSE IF /\ ~has_negative_bucket(hv.buckets) /\ is_some(hv.sum)
               /\ FLt(as_f64(unwrap(hv.sum)), Fin(0))
            THEN "InvalidMetric"
       ELSE IF ~buckets_cumulative(hv.buckets) THEN "InvalidMetric"
       ELSE "Ok"

\* Mutant of validate_histogram: the sum is not tested against the buckets.
validate_histogram_any_sum(value) ==
    LET hv == value.h
    IN IF Len(hv.buckets) = 0 THEN "InvalidMetric"
       ELSE IF ~has_inf_bucket(hv.buckets) THEN "InvalidMetric"
       ELSE IF is_some(hv.sum) /\ is_none(hv.count) THEN "InvalidMetric"
       ELSE IF is_none(hv.sum) /\ is_some(hv.count) THEN "InvalidMetric"
       ELSE IF ~buckets_cumulative(hv.buckets) THEN "InvalidMetric"
       ELSE "Ok"

validate_histogram(value) ==
    LET hv == value.h
        gauge_histogram == value.kind = "GaugeHistogram"
    IN IF Len(hv.buckets) = 0 THEN "InvalidMetric"
       ELSE IF ~has_inf_bucket(hv.buckets) THEN "InvalidMetric"
       ELSE IF has_negative_bucket(hv.buckets) /\ is_some(hv.sum) /\ ~gauge_histogram
            THEN "InvalidMetric"
       ELSE IF /\ ~has_negative_bucket(hv.buckets) /\ is_some(hv.sum)
               /\ FLt(as_f64(unwrap(hv.sum)), Fin(0))
            THEN "InvalidMetric"
       ELSE IF is_some(hv.sum) /\ is_none(hv.count) THEN "InvalidMetric"
       ELSE IF is_none(hv.sum) /\ is_some(hv.count) THEN "InvalidMetric"
       ELSE IF ~buckets_cumulative(hv.buckets) THEN "InvalidMetric"
       ELSE "Ok"

\* MetricMarshal::validate.  The label test unwraps family.label_names
\* when the first disjunct is false.
MetricMarshal_validate(m, family) ==
    IF is_none(family.label_names) /\ Len(m.label_values) # 0 THEN "InvalidMetric"
    ELSE IF is_none(family.label_names) THEN "Panic"
    ELSE IF Len(unwrap(family.label_names).names) # Len(m.label_values) THEN "InvalidMetric"
    ELSE IF is_some(family.unit) /\ Len(family.metrics) = 0 THEN "InvalidMetric"
    ELSE IF m.value.kind \in {"Histogram", "GaugeHistogram"}
         THEN validate_histogram(m.value)
    ELSE "Ok"

\* MetricFamilyMarshal::validate: the first metric that fails decides.
validate(family) ==
    LET bad == {i \in 1..Len(family.metrics) :
                   MetricMarshal_validate(family.metrics[i], family) # "Ok"}
    IN IF bad = {} THEN "Ok"
       ELSE MetricMarshal_validate(family.metrics[CHOOSE i \in bad : \A j \in bad : i <= j],
                                   family)

\* ------------------------------------------------------------------------
\* Conversion of a validated marshal into the returned MetricFamily
\* ------------------------------------------------------------------------
\* Into<value>: Unknown, Gauge, StateSet and the Counter total are unwrapped.
value_converts(value) ==
    CASE value.kind \in {"Unknown", "Gauge", "StateSet"} -> is_some(value.n)
      [] value.kind = "Counter" -> is_some(value.c.value)
      [] OTHER -> TRUE

Metric_from(m) == [label_values |-> m.label_values, timestamp |-> m.timestamp, value |-> m.value]

\* From<MetricFamilyMarshal> for MetricFamily: None stands for a panic
\* (the assert on the name, or an unwrap of an absent value).
MetricFamily_from(marshal) ==
    IF is_none(marshal.name) THEN None
    ELSE IF \E i \in 1..Len(marshal.metrics) : ~value_converts(marshal.metrics[i].value)
    THEN None
    ELSE Some([name |-> unwrap(marshal.name),
               label_names |-> IF is_some(marshal.label_names)
                               THEN unwrap(marshal.label_names).names ELSE <<>>,
               family_type |-> unwrap_or_default(marshal.family_type),
               help |-> marshal.help,
               unit |-> marshal.unit,
               metrics |-> [i \in 1..Len(marshal.metrics) |-> Metric_from(marshal.metrics[i])]])

\* ------------------------------------------------------------------------
\* Bounds
\* ------------------------------------------------------------------------
\* Sample lines accepted into one family by the parse drivers.
MaxSamples == 2

\* process_new_metric calls made on one in-progress family.
MaxCalls == 3

\* Public operations applied to one MetricFamily value.
MaxOps == 3

\* Sample lines handed to process_new_metric for one histogram family.
MaxHistLines == 4

\* ------------------------------------------------------------------------
\* State
\* ------------------------------------------------------------------------
VARIABLES
    fmt,          \* "om": parse_openmetrics, "prom": parse_prometheus
    family,       \* the MetricFamilyMarshal being assembled
    open,         \* a child of the current metricfamily has been processed
    nsamples,     \* sample lines accepted into the current family
    exposition,   \* MetricsExposition.families: name -> MetricFamily
    found_eof,    \* the kw_eof token has been seen
    status,       \* "parsing", "Ok" (returned), "Err" (returned), "Panic"
    err,          \* the returned error [kind, reason], NoErr when none
    ret,          \* the returned exposition: Some on Ok, None otherwise
    line,         \* the last event or call
    ncalls,       \* direct process_new_metric calls made on `family`
    call,         \* result of the last direct call: [res, before]
    mf,           \* a MetricFamily value held by a caller, None when none
    api,          \* the last public operation and its result
    nops          \* public operations applied

driverVars == <<open, nsamples, exposition, found_eof, status, err, ret>>

callVars == <<ncalls, call>>

apiVars == <<mf, api, nops>>

vars == <<fmt, family, line, driverVars, callVars, apiVars>>

Line(kind, name, arg, value, labels, timestamp, exemplar) ==
    [kind |-> kind, name |-> name, arg |-> arg, value |-> value, labels |-> labels,
     timestamp |-> timestamp, exemplar |-> exemplar]

NoLine == Line("none", <<>>, "", Int_(0), <<>>, None, None)

NoErr == [kind |-> "", reason |-> ""]

NoCall == [res |-> "none", before |-> MetricFamilyMarshal_empty]

NoApi == [op |-> "none", res |-> "none"]

Init ==
    /\ fmt \in {"om", "prom"}
    /\ family = MetricFamilyMarshal_empty
    /\ open = FALSE
    /\ nsamples = 0
    /\ exposition = <<>>
    /\ found_eof = FALSE
    /\ status = "parsing"
    /\ err = NoErr
    /\ ret = None
    /\ line = NoLine
    /\ ncalls = 0
    /\ call = NoCall
    /\ mf = None
    /\ api = NoApi
    /\ nops = 0

\* ------------------------------------------------------------------------
\* The parse drivers
\* ------------------------------------------------------------------------
\* Mutant of Fail: the families finalised so far are returned with the error.
Fail_partial(kind, reason) ==
    /\ status' = "Err"
    /\ err' = [kind |-> kind, reason |-> reason]
    /\ ret' = Some(exposition)
    /\ family' = MetricFamilyMarshal_empty
    /\ UNCHANGED <<exposition, open, nsamples, found_eof>>

\* `return Err(..)` / `?`: the parse function returns the error.  The family
\* in progress is dropped with parse_metric_family's frame; `exposition`
\* stays as it was when the function returned and never reaches the caller.
\* The reason names the driver's own checks and is "" for an error that
\* comes out of the family's operations.
Fail(kind, reason) ==
    /\ status' = "Err"
    /\ err' = [kind |-> kind, reason |-> reason]
    /\ ret' = None
    /\ family' = MetricFamilyMarshal_empty
    /\ UNCHANGED <<exposition, open, nsamples, found_eof>>

\* A panic unwinds out of the parse function: nothing is returned.
Panic ==
    /\ status' = "Panic"
    /\ ret' = None
    /\ family' = MetricFamilyMarshal_empty
    /\ UNCHANGED <<exposition, err, open, nsamples, found_eof>>

\* Outcome of an event handled on the family in progress; ns is the count
\* of accepted sample lines when the event is accepted.
Outcome(r, ns) ==
    CASE r.res = "Ok" ->
            /\ family' = r.family
            /\ open' = TRUE
            /\ nsamples' = ns
            /\ UNCHANGED <<exposition, found_eof, status, err, ret>>
      [] r.res = "Panic" -> Panic
      [] OTHER -> Fail(r.res, "")

\* Mutant of parse_metric_descriptor: UNIT sets or tests the family name as
\* HELP and TYPE do.
parse_metric_descriptor_unit_names(fm, f, kind, metric_name, arg) ==
    CASE kind = "help" ->
            LET named == set_or_test_name(f, metric_name)
            IN IF named.res # "Ok" THEN named ELSE try_add_help(named.family, arg)
      [] kind = "type" ->
            LET named == set_or_test_name(f, metric_name)
                ty == type_try_from(fm, arg)
            IN IF named.res # "Ok" THEN named
               ELSE IF is_none(ty) THEN FRes("InvalidMetric", named.family)
               ELSE try_add_type(named.family, unwrap(ty))
      [] kind = "unit" ->
            LET named == set_or_test_name(f, metric_name)
            IN IF named.res # "Ok" THEN named ELSE try_add_unit(named.family, arg)

\* HELP and TYPE set or test the family name first; UNIT needs the name to
\* be set already.  UNIT exists in OpenMetrics only.
parse_metric_descriptor(fm, f, kind, metric_name, arg) ==
    CASE kind = "help" ->
            LET named == set_or_test_name(f, metric_name)
            IN IF named.res # "Ok" THEN named ELSE try_add_help(named.family, arg)
      [] kind = "type" ->
            LET named == set_or_test_name(f, metric_name)
                ty == type_try_from(fm, arg)
            IN IF named.res # "Ok" THEN named
               ELSE IF is_none(ty) THEN FRes("InvalidMetric", named.family)
               ELSE try_add_type(named.family, unwrap(ty))
      [] kind = "unit" ->
            IF is_none(f.name) \/ Some(metric_name) # f.name
            THEN FRes("InvalidMetric", f)
            ELSE try_add_unit(f, arg)

\* Mutant of descriptor_allowed: descriptors are taken after samples too.
descriptor_always_allowed(metric_family) == TRUE

\* parse_metric_family's test before a metricdescriptor child.
descriptor_allowed(metric_family) == Len(metric_family.metrics) = 0

Descriptor(kind, metric_name, arg) ==
    /\ status = "parsing" /\ ~found_eof
    /\ kind = "unit" => fmt = "om"
    /\ line' = Line(kind, metric_name, arg, Int_(0), <<>>, None, None)
    /\ IF descriptor_allowed(family)
       THEN Outcome(parse_metric_descriptor(fmt, family, kind, metric_name, arg), nsamples)
       ELSE Fail("InvalidMetric", "Metric Descriptor after samples")
    /\ UNCHANGED <<fmt, callVars, apiVars>>

LabelNamesOf(labels) == [i \in 1..Len(labels) |-> labels[i][1]]

LabelValuesOf(labels) == [i \in 1..Len(labels) |-> labels[i][2]]

\* parse_sample on the family f: the labels are parsed, then the line is
\* handed to process_new_metric.
parse_sample(fm, f, in) ==
    LET parsed == parse_labels(in.labels)
    IN IF ~parsed.ok THEN FRes("InvalidMetric", f)
       ELSE process_new_metric(fm, f, in.name, in.value, LabelNamesOf(parsed.labels),
                               LabelValuesOf(parsed.labels), in.timestamp, in.exemplar)

Sample(in) ==
    /\ status = "parsing" /\ ~found_eof
    /\ nsamples < MaxSamples
    /\ line' = in
    /\ Outcome(parse_sample(fmt, family, in), nsamples + 1)
    /\ UNCHANGED <<fmt, callVars, apiVars>>

\* Mutant of contains_key: no name is found in the exposition.
contains_key_never(families, name) == FALSE

contains_key(families, name) == name \in DOMAIN families

\* HashMap::insert: a present key gets the new value.
insert(families, fam) ==
    [n \in DOMAIN families \cup {fam.name} |-> IF n = fam.name THEN fam ELSE families[n]]

\* End of a metricfamily: validate, convert, and insert into the exposition
\* unless its name is already there.
EndFamily ==
    /\ status = "parsing" /\ open
    /\ line' = Line("end", <<>>, "", Int_(0), <<>>, None, None)
    /\ LET v == validate(family)
           converted == MetricFamily_from(family)
       IN IF v = "Panic" THEN Panic
          ELSE IF v # "Ok" THEN Fail(v, "")
          ELSE IF is_none(converted) THEN Panic
          ELSE IF contains_key(exposition, unwrap(converted).name)
               THEN Fail("InvalidMetric", "family was finalised")
          ELSE /\ exposition' = insert(exposition, unwrap(converted))
               /\ family' = MetricFamilyMarshal_empty
               /\ open' = FALSE
               /\ nsamples' = 0
               /\ UNCHANGED <<found_eof, status, err, ret>>
    /\ UNCHANGED <<fmt, callVars, apiVars>>

\* Mutant of text_after_eof: whatever follows the token is let through.
text_after_eof_never(rest) == FALSE

\* The test on the kw_eof span: `rest` is the characters of exposition_bytes
\* after the end of the span.  The span ends at the end of the bytes, or one
\* before it when the last character is a newline.
text_after_eof(rest) ==
    /\ Len(rest) # 0
    /\ ~(Len(rest) = 1 /\ Last(rest) = "\n")

\* The kw_eof token of OpenMetrics, followed by `rest`; text after it is an
\* error.
EofToken(rest) ==
    /\ status = "parsing" /\ ~open /\ ~found_eof /\ fmt = "om"
    /\ line' = Line("eof", <<>>, rest, Int_(0), <<>>, None, None)
    /\ IF text_after_eof(rest)
       THEN Fail("InvalidMetric", "text after the EOF token")
       ELSE /\ found_eof' = TRUE
            /\ UNCHANGED <<family, open, nsamples, exposition, status, err, ret>>
    /\ UNCHANGED <<fmt, callVars, apiVars>>

\* The end of the token stream: OpenMetrics fails without the EOF token,
\* otherwise the exposition is returned.
EndOfInput ==
    /\ status = "parsing" /\ ~open
    /\ line' = Line("eoi", <<>>, "", Int_(0), <<>>, None, None)
    /\ IF fmt = "om" /\ ~found_eof
       THEN Fail("InvalidMetric", "no EOF token")
       ELSE /\ status' = "Ok"
            /\ ret' = Some(exposition)
            /\ UNCHANGED <<family, open, nsamples, exposition, found_eof, err>>
    /\ UNCHANGED <<fmt, callVars, apiVars>>

\* ------------------------------------------------------------------------
\* process_new_metric called directly on one in-progress family
\* ------------------------------------------------------------------------
\* The TYPE line that precedes the samples of the family.
DeclareType(metric_name, word) ==
    /\ ncalls = 0 /\ is_none(family.family_type)
    /\ LET r == parse_metric_descriptor(fmt, family, "type", metric_name, word)
       IN /\ r.res = "Ok"
          /\ family' = r.family
    /\ line' = Line("type", metric_name, word, Int_(0), <<>>, None, None)
    /\ UNCHANGED <<fmt, driverVars, callVars, apiVars>>

\* One call, the max-th at most; whatever it returns, the family stays with
\* the caller, who may call again.
CallUpTo(in, max) ==
    /\ ncalls < max /\ call.res # "Panic"
    /\ parse_labels(in.labels).ok
    /\ LET r == parse_sample(fmt, family, in)
       IN /\ family' = r.family
          /\ call' = [res |-> r.res, before |-> family]
    /\ line' = in
    /\ ncalls' = ncalls + 1
    /\ UNCHANGED <<fmt, driverVars, apiVars>>

Call(in) == CallUpTo(in, MaxCalls)

\* MetricFamilyMarshal::validate called on the family in progress: the
\* family is borrowed and stays as it is.
Validate ==
    /\ ncalls > 0 /\ call.res # "Panic"
    /\ call' = [res |-> validate(family), before |-> family]
    /\ line' = Line("validate", <<>>, "", Int_(0), <<>>, None, None)
    /\ UNCHANGED <<fmt, family, ncalls, driverVars, apiVars>>

\* ------------------------------------------------------------------------
\* The public MetricFamily operations
\* ------------------------------------------------------------------------
MetricFamily_new(family_name, label_names, family_type, help, unit) ==
    [name |-> family_name, label_names |-> label_names, family_type |-> family_type,
     help |-> help, unit |-> unit, metrics |-> <<>>]

Sample_new(label_values, timestamp, value) ==
    [label_values |-> label_values, timestamp |-> timestamp, value |-> value]

get_sample_by_label_values(f, label_values) ==
    \E i \in 1..Len(f.metrics) : f.metrics[i].label_values = label_values

\* Mutant of add_sample: the label count is not tested.
add_sample_unchecked(f, sample) ==
    IF get_sample_by_label_values(f, sample.label_values) THEN FRes("InvalidMetric", f)
    ELSE FRes("Ok", [f EXCEPT !.metrics = Append(@, sample)])

add_sample(f, sample) ==
    IF Len(sample.label_values) # Len(f.label_names) THEN FRes("InvalidMetric", f)
    ELSE IF get_sample_by_label_values(f, sample.label_values) THEN FRes("InvalidMetric", f)
    ELSE FRes("Ok", [f EXCEPT !.metrics = Append(@, sample)])

RECURSIVE with_samples(_, _)
with_samples(f, samples) ==
    IF samples = <<>> THEN FRes("Ok", f)
    ELSE LET r == add_sample(f, Head(samples))
         IN IF r.res # "Ok" THEN r ELSE with_samples(r.family, Tail(samples))

\* One (k, v) of with_labels: an existing label is overwritten on every
\* sample, a new one is appended to the names and to every sample.
with_label(f, k, v) ==
    LET idx == position(f.label_names, k)
    IN IF idx # 0
       THEN [f EXCEPT !.metrics =
                [i \in 1..Len(f.metrics) |-> [f.metrics[i] EXCEPT !.label_values[idx] = v]]]
       ELSE [f EXCEPT !.label_names = Append(@, k),
                      !.metrics = [i \in 1..Len(f.metrics) |->
                                      [f.metrics[i] EXCEPT !.label_values = Append(@, v)]]]

RECURSIVE with_label_pairs(_, _)
with_label_pairs(f, labels) ==
    IF labels = <<>> THEN f
    ELSE with_label_pairs(with_label(f, Head(labels)[1], Head(labels)[2]), Tail(labels))

\* with_labels: the relabelled samples are added to a new family and the
\* result is unwrapped.
with_labels(f, labels) ==
    LET relabelled == with_label_pairs(f, labels)
        r == with_samples(MetricFamily_new(f.name, relabelled.label_names, f.family_type,
                                           f.help, f.unit),
                          relabelled.metrics)
    IN IF r.res = "Ok" THEN r ELSE FRes("Panic", f)

\* Mutant of without_label: the samples are stored without add_sample's
\* test for equal label values.
without_label_unchecked(f, label_name) ==
    LET idx == position(f.label_names, label_name)
    IN IF idx = 0 THEN FRes("InvalidMetric", f)
       ELSE FRes("Ok", [f EXCEPT !.label_names = remove(@, idx),
                                 !.metrics = [i \in 1..Len(f.metrics) |->
                                     [f.metrics[i] EXCEPT !.label_values = remove(@, idx)]]])

without_label(f, label_name) ==
    LET idx == position(f.label_names, label_name)
        base == MetricFamily_new(f.name, remove(f.label_names, idx), f.family_type,
                                 f.help, f.unit)
        r == with_samples(base,
                 [i \in 1..Len(f.metrics) |->
                     Sample_new(remove(f.metrics[i].label_values, idx),
                                f.metrics[i].timestamp, f.metrics[i].value)])
    IN IF idx = 0 THEN FRes("InvalidMetric", f)
       ELSE IF r.res # "Ok" THEN FRes(r.res, f)
       ELSE r

\* set_label: index is 0-based in the code, position is 1-based here.  A
\* sample shorter than the index makes the indexed assignment panic.
set_label(f, label_name, label_value) ==
    LET p == position(f.label_names, label_name)
        set(m) == IF p - 1 = Len(m.label_values)
                  THEN [m EXCEPT !.label_values = Append(@, label_value)]
                  ELSE [m EXCEPT !.label_values[p] = label_value]
    IN IF p = 0 THEN FRes("ParseError", f)
       ELSE IF \E i \in 1..Len(f.metrics) : p - 1 > Len(f.metrics[i].label_values)
       THEN FRes("Panic", f)
       ELSE FRes("Ok", [f EXCEPT !.metrics = [i \in 1..Len(f.metrics) |-> set(f.metrics[i])]])

ApiStep(op, r, kept) ==
    /\ mf' = kept
    /\ api' = [op |-> op, res |-> r.res]
    /\ nops' = nops + 1
    /\ UNCHANGED <<fmt, family, line, driverVars, callVars>>

ApiReady == is_some(mf) /\ api.res # "Panic" /\ nops < MaxOps

\* MetricFamily::new.  The caller is not inside a parse call.
New(label_names) ==
    /\ status # "parsing"
    /\ is_none(mf) /\ api.res # "Panic" /\ nops < MaxOps
    /\ ApiStep("new", [res |-> "Ok"],
               Some(MetricFamily_new(<<"x">>, label_names, "Gauge", None, None)))

\* The caller takes a family out of the exposition a parse returned.
Adopt(n) ==
    /\ is_none(mf) /\ api.res # "Panic" /\ nops < MaxOps
    /\ status = "Ok" /\ n \in DOMAIN unwrap(ret)
    /\ ApiStep("adopt", [res |-> "Ok"], Some(unwrap(ret)[n]))

AddSample(label_values) ==
    /\ ApiReady
    /\ LET r == add_sample(unwrap(mf), Sample_new(label_values, None,
                                                   [kind |-> "Gauge", n |-> Some(Int_(1))]))
       IN ApiStep("add_sample", r, Some(r.family))

\* with_samples takes the family by value: on an error it is gone.
WithSamples(label_value_lists) ==
    /\ ApiReady
    /\ LET r == with_samples(unwrap(mf),
                    [i \in 1..Len(label_value_lists) |->
                        Sample_new(label_value_lists[i], None,
                                   [kind |-> "Gauge", n |-> Some(Int_(1))])])
       IN ApiStep("with_samples", r, IF r.res = "Ok" THEN Some(r.family) ELSE None)

WithLabels(labels) ==
    /\ ApiReady
    /\ LET r == with_labels(unwrap(mf), labels)
       IN ApiStep("with_labels", r, Some(r.family))

\* The caller goes on with the family without_label returned, or with the
\* receiver when it returned an error.
WithoutLabel(label_name) ==
    /\ ApiReady
    /\ LET r == without_label(unwrap(mf), label_name)
       IN /\ mf' = Some(r.family)
          /\ api' = [op |-> "without_label", res |-> r.res, label_name |-> label_name]
    /\ nops' = nops + 1
    /\ UNCHANGED <<fmt, family, line, driverVars, callVars>>

\* LabelSet::get_label_value on a sample's values under the family's names.
get_label_value(label_names, label_values, label_name) ==
    IF position(label_names, label_name) = 0 THEN None
    ELSE Some(label_values[position(label_names, label_name)])

SetLabel(label_name, label_value) ==
    /\ ApiReady
    /\ LET r == set_label(unwrap(mf), label_name, label_value)
       IN ApiStep("set_label", r, Some(r.family))

\* ------------------------------------------------------------------------
\* Rendering an exposition and parsing the text again
\* ------------------------------------------------------------------------
\* Display for f64 on the values the model uses: no fractional part is
\* printed for a whole number, and the infinity prints as "inf".
f64_to_string(f) ==
    CASE f = Fin(2) -> "1"
      [] f = Fin(4) -> "2"
      [] f = Fin(-2) -> "-1"
      [] f = Fin(1) -> "0.5"
      [] f = INFINITY -> "inf"
      [] f = NaN -> "NaN"
      [] OTHER -> "?"

\* Display for MetricNumber.  The text is the number it denotes and whether
\* it reads as an integer: Float(1.0) and Int(1) both print "1".
MetricNumber_to_string(n) ==
    IF n.tag = "Int" THEN [integer |-> TRUE, f |-> Fin(2 * n.i)]
    ELSE [integer |-> n.f.k = "fin" /\ n.f.h % 2 = 0, f |-> n.f]

\* parse_sample on the value text: i64 first, f64 when that fails.
parse_value(text) ==
    IF text.integer THEN Int_(text.f.h \div 2) ELSE Float_(text.f)

\* render_label_values: the names zipped with the values.
render_label_values(label_names, label_values) ==
    [i \in 1..(IF Len(label_names) < Len(label_values) THEN Len(label_names)
                ELSE Len(label_values)) |-> <<label_names[i], label_values[i]>>]

\* Display for Exemplar: names and values are both taken from labels.keys().
Exemplar_to_string(ex) ==
    [ex EXCEPT !.labels = [i \in 1..Len(ex.labels) |-> <<ex.labels[i][1], ex.labels[i][1]>>]]

render_exemplar(exemplar) ==
    IF is_some(exemplar) THEN Some(Exemplar_to_string(unwrap(exemplar))) ELSE None

\* A rendered sample line, as the tokens the grammar hands to parse_sample.
RenderedLine(name, labels, n, timestamp, exemplar) ==
    Line("sample", name, "", parse_value(MetricNumber_to_string(n)), labels, timestamp, exemplar)

\* HistogramValue::render: a _bucket line per bucket with the le label
\* appended, then _sum, _count and _created; no line carries the timestamp.
HistogramValue_render(h, metric_name, label_names, label_values) ==
    [i \in 1..Len(h.buckets) |->
        RenderedLine(metric_name \o <<"_bucket">>,
                     render_label_values(Append(label_names, "le"),
                         Append(label_values, f64_to_string(h.buckets[i].upper_bound))),
                     h.buckets[i].count, None, render_exemplar(h.buckets[i].exemplar))]
    \o (IF is_some(h.sum)
        THEN <<RenderedLine(metric_name \o <<"_sum">>,
                            render_label_values(label_names, label_values),
                            unwrap(h.sum), None, None)>>
        ELSE <<>>)
    \o (IF is_some(h.count)
        THEN <<RenderedLine(metric_name \o <<"_count">>,
                            render_label_values(label_names, label_values),
                            Int_(unwrap(h.count)), None, None)>>
        ELSE <<>>)
    \o (IF is_some(h.timestamp)
        THEN <<RenderedLine(metric_name \o <<"_created">>,
                            render_label_values(label_names, label_values),
                            Float_(unwrap(h.timestamp)), None, None)>>
        ELSE <<>>)

\* SummaryValue::render: a line per quantile with the quantile label
\* appended, then _sum, _count and _created.
SummaryValue_render(sv, metric_name, label_names, label_values) ==
    [i \in 1..Len(sv.quantiles) |->
        RenderedLine(metric_name,
                     render_label_values(Append(label_names, "quantile"),
                         Append(label_values, f64_to_string(sv.quantiles[i].quantile))),
                     sv.quantiles[i].value, None, None)]
    \o (IF is_some(sv.sum)
        THEN <<RenderedLine(metric_name \o <<"_sum">>,
                            render_label_values(label_names, label_values),
                            unwrap(sv.sum), None, None)>>
        ELSE <<>>)
    \o (IF is_some(sv.count)
        THEN <<RenderedLine(metric_name \o <<"_count">>,
                            render_label_values(label_names, label_values),
                            Int_(unwrap(sv.count)), None, None)>>
        ELSE <<>>)
    \o (IF is_some(sv.timestamp)
        THEN <<RenderedLine(metric_name \o <<"_created">>,
                            render_label_values(label_names, label_values),
                            Float_(unwrap(sv.timestamp)), None, None)>>
        ELSE <<>>)

\* RenderableMetricValue::render of OpenMetricsValue and PrometheusValue.
render_value(value, metric_name, timestamp, label_names, label_values) ==
    CASE value.kind \in {"Unknown", "Gauge", "StateSet"} ->
            <<RenderedLine(metric_name, render_label_values(label_names, label_values),
                           unwrap(value.n), timestamp, None)>>
      [] value.kind = "Counter" ->
            <<RenderedLine(metric_name, render_label_values(label_names, label_values),
                           unwrap(value.c.value), timestamp, render_exemplar(value.c.exemplar))>>
      [] value.kind \in {"Histogram", "GaugeHistogram"} ->
            HistogramValue_render(value.h, metric_name, label_names, label_values)
      [] value.kind = "Summary" ->
            SummaryValue_render(value.s, metric_name, label_names, label_values)
      [] value.kind = "Info" ->
            <<RenderedLine(metric_name, render_label_values(label_names, label_values),
                           Int_(1), timestamp, None)>>

\* Sample::render
Sample_render(sample, metric_name, label_names) ==
    render_value(sample.value, metric_name, sample.timestamp, label_names, sample.label_values)

RECURSIVE render_samples(_, _, _)
render_samples(metrics, metric_name, label_names) ==
    IF metrics = <<>> THEN <<>>
    ELSE Sample_render(Head(metrics), metric_name, label_names)
         \o render_samples(Tail(metrics), metric_name, label_names)

\* Display of a family type: the word of its TYPE line.
type_to_string(ty) ==
    CASE ty = "Counter" -> "counter"
      [] ty = "Gauge" -> "gauge"
      [] ty = "Histogram" -> "histogram"
      [] ty = "Summary" -> "summary"
      [] ty = "Unknown" -> "unknown"
      [] ty = "GaugeHistogram" -> "gaugehistogram"
      [] ty = "StateSet" -> "stateset"
      [] ty = "Info" -> "info"

\* Mutant of MetricFamily_to_string: the TYPE line is written first, and
\* for the default type too.
MetricFamily_to_string_typed(f) ==
    <<Line("type", f.name, type_to_string(f.family_type), Int_(0), <<>>, None, None)>>
    \o (IF is_some(f.help)
        THEN <<Line("help", f.name, unwrap(f.help), Int_(0), <<>>, None, None)>> ELSE <<>>)
    \o (IF is_some(f.unit)
        THEN <<Line("unit", f.name, unwrap(f.unit), Int_(0), <<>>, None, None)>> ELSE <<>>)
    \o render_samples(f.metrics, f.name, f.label_names)

\* Display for MetricFamily: HELP, TYPE unless the type is the default,
\* UNIT, then the samples.
MetricFamily_to_string(f) ==
    (IF is_some(f.help)
     THEN <<Line("help", f.name, unwrap(f.help), Int_(0), <<>>, None, None)>> ELSE <<>>)
    \o (IF f.family_type # default_type
        THEN <<Line("type", f.name, type_to_string(f.family_type), Int_(0), <<>>, None, None)>>
        ELSE <<>>)
    \o (IF is_some(f.unit)
        THEN <<Line("unit", f.name, unwrap(f.unit), Int_(0), <<>>, None, None)>> ELSE <<>>)
    \o render_samples(f.metrics, f.name, f.label_names)

\* One child of a metricfamily: a sample goes to parse_sample, a descriptor
\* to parse_metric_descriptor unless samples were read already.
\* (Only OpenMetrics families have a unit, so only they render a UNIT line.)
parse_child(fm, f, l) ==
    IF l.kind = "sample" THEN parse_sample(fm, f, l)
    ELSE IF descriptor_allowed(f)
         THEN parse_metric_descriptor(fm, f, l.kind, l.name, l.arg)
    ELSE FRes("InvalidMetric", f)

\* The loop of parse_metric_family over the children of one metricfamily:
\* r is the result of the child before `lines`; the `?` returns at the first
\* child that fails.
RECURSIVE parse_children(_, _, _)
parse_children(fm, r, lines) ==
    IF r.res # "Ok" \/ lines = <<>> THEN r
    ELSE parse_children(fm, parse_child(fm, r.family, Head(lines)), Tail(lines))

\* The end of parse_metric_family on the result r of the loop: validate,
\* into.  family is None unless res is "Ok".
finish_metric_family(r) ==
    IF r.res # "Ok" THEN [res |-> r.res, family |-> None]
    ELSE IF validate(r.family) # "Ok" THEN [res |-> validate(r.family), family |-> None]
    ELSE IF is_none(MetricFamily_from(r.family)) THEN [res |-> "Panic", family |-> None]
    ELSE [res |-> "Ok", family |-> MetricFamily_from(r.family)]

\* parse_metric_family: the children, validate, into.
parse_metric_family(fm, lines) ==
    finish_metric_family(parse_children(fm, FRes("Ok", MetricFamilyMarshal_empty), lines))

\* The metricfamily blocks of the rendered text, each parsed on its own.  A
\* family that renders no line leaves no metricfamily in the text.
parse_rendered(fm, families) ==
    [n \in {k \in DOMAIN families : MetricFamily_to_string(families[k]) # <<>>} |->
        parse_metric_family(fm, MetricFamily_to_string(families[n]))]

\* The families of the text that do not parse.
failing_families(parsed) == {n \in DOMAIN parsed : parsed[n].res # "Ok"}

\* The names of the families that parsed.
parsed_names(parsed) ==
    {unwrap(parsed[n].family).name : n \in DOMAIN parsed \ failing_families(parsed)}

\* The main loop over the parsed blocks, when the family `first` is the
\* first one the parse fails on, if it fails on any: a name seen before is
\* an error, and the text has no EOF token.
collect_families(fm, parsed, first) ==
    IF first \in DOMAIN parsed /\ parsed[first].res # "Ok"
    THEN [res |-> parsed[first].res, families |-> <<>>]
    ELSE IF Cardinality(parsed_names(parsed)) < Cardinality(DOMAIN parsed)
    THEN [res |-> "InvalidMetric", families |-> <<>>]
    ELSE IF fm = "om" THEN [res |-> "InvalidMetric", families |-> <<>>]
    ELSE [res |-> "Ok",
          families |-> [k \in parsed_names(parsed) |->
              unwrap(parsed[CHOOSE n \in DOMAIN parsed : unwrap(parsed[n].family).name = k].family)]]

\* Display for MetricsExposition followed by a parse of the text.
render_parse(fm, families, first) ==
    collect_families(fm, parse_rendered(fm, families), first)

\* The families the second parse can stop at: any that fails, as the order
\* of the rendered families is the HashMap's.
first_failures(parsed) ==
    IF failing_families(parsed) = {} THEN {<<>>} ELSE failing_families(parsed)

\* The caller receives the result r of the second parse.
Reparsed(r) ==
    api' = [op |-> "render_parse", res |-> r.res, families |-> r.families]

\* The caller renders the exposition a parse returned and parses the text
\* with the same parser.
RenderParse ==
    /\ status = "Ok" /\ api.op = "none"
    /\ \E first \in first_failures(parse_rendered(fmt, unwrap(ret))) :
          Reparsed(render_parse(fmt, unwrap(ret), first))
    /\ nops' = nops + 1
    /\ UNCHANGED <<fmt, family, line, mf, driverVars, callVars>>

\* ------------------------------------------------------------------------
\* Arithmetic on MetricNumber
\* ------------------------------------------------------------------------
\* x op y on finite f64 values counted in halves; division by zero gives an
\* infinity, or NaN for 0/0.
f64_op(op, x, y) ==
    CASE op = "add" -> Fin(x.h + y.h)
      [] op = "sub" -> Fin(x.h - y.h)
      [] op = "mul" -> Fin((x.h * y.h) \div 2)
      [] op = "div" ->
            IF y.h # 0 THEN Fin((2 * x.h) \div y.h)
            ELSE IF x.h = 0 THEN NaN
            ELSE IF x.h > 0 THEN INFINITY ELSE NEG_INFINITY

\* The result of f64_op is the exact one: it is a number of halves.
exact_in_halves(op, x, y) ==
    CASE op = "mul" -> (x.h * y.h) % 2 = 0
      [] op = "div" -> IF y.h = 0 THEN TRUE ELSE (2 * x.h) % y.h = 0
      [] OTHER -> TRUE

\* The four impl_op_ex! blocks.  The (Int, Float) arm computes f op i, the
\* float on the left; i64 division by zero panics.
MetricNumber_op(op, a, b) ==
    CASE a.tag = "Float" /\ b.tag = "Float" ->
            [res |-> "Ok", value |-> Float_(f64_op(op, a.f, b.f))]
      [] a.tag = "Float" /\ b.tag = "Int" ->
            [res |-> "Ok", value |-> Float_(f64_op(op, a.f, Fin(2 * b.i)))]
      [] a.tag = "Int" /\ b.tag = "Float" ->
            [res |-> "Ok", value |-> Float_(f64_op(op, b.f, Fin(2 * a.i)))]
      [] a.tag = "Int" /\ b.tag = "Int" ->
            CASE op = "add" -> [res |-> "Ok", value |-> Int_(a.i + b.i)]
              [] op = "sub" -> [res |-> "Ok", value |-> Int_(a.i - b.i)]
              [] op = "mul" -> [res |-> "Ok", value |-> Int_(a.i * b.i)]
              [] op = "div" ->
                    IF b.i = 0 THEN [res |-> "Panic", value |-> Int_(0)]
                    ELSE [res |-> "Ok", value |-> Int_(a.i \div b.i)]

\* A caller evaluates a op b.
Arith(op, a, b) ==
    /\ api.op = "none" /\ nops < MaxOps
    /\ exact_in_halves(op, as_f64(a), as_f64(b))
    /\ exact_in_halves(op, as_f64(b), as_f64(a))
    /\ LET r == MetricNumber_op(op, a, b)
       IN api' = [op |-> op, res |-> r.res, a |-> a, b |-> b, value |-> r.value]
    /\ nops' = nops + 1
    /\ UNCHANGED <<fmt, family, line, mf, driverVars, callVars>>

\* ------------------------------------------------------------------------
\* Inputs
\* ------------------------------------------------------------------------
SampleIn(name, value, labels, timestamp, exemplar) ==
    Line("sample", name, "", value, labels, timestamp, exemplar)

\* An exemplar: its labels, value and timestamp.
Exemplar_new == [labels |-> << <<"trace", "t">> >>, id |-> Fin(2), timestamp |-> None]

\* Documents: the families x and y, the counter, gauge and stateset types
\* and a type word that is none; a family without a TYPE line has the
\* default type.  Sample lines come without labels, with the label a and
\* with the labels b, a in this order.
DocNames == {<<"x">>, <<"y">>}

DocTypeWords == {"counter", "gauge", "stateset", "bogus"}

DocSamples ==
    {SampleIn(n, Int_(1), <<>>, None, None) :
        n \in {<<"x">>, <<"x", "_total">>, <<"x", "_created">>, <<"y">>}}
    \cup {SampleIn(<<"x">>, Int_(1), << <<"a", "1">> >>, None, None),
          SampleIn(<<"x">>, Int_(1), << <<"b", "1">>, <<"a", "1">> >>, None, None)}

HelpLine == Descriptor("help", <<"x">>, "text")

TypeLine == \E n \in DocNames, w \in DocTypeWords : Descriptor("type", n, w)

UnitLine == Descriptor("unit", <<"x">>, "seconds")

SampleLine == \E in \in DocSamples : Sample(in)

\* What follows the EOF token: nothing, a newline, two newlines, a space, a
\* character, a character and a newline.
EofRests == {<<>>, <<"\n">>, <<"\n", "\n">>, <<" ">>, <<"x">>, <<"x", "\n">>}

EofLine == \E rest \in EofRests : EofToken(rest)

Next ==
    \/ HelpLine
    \/ TypeLine
    \/ UnitLine
    \/ SampleLine
    \/ EndFamily
    \/ EofLine
    \/ EndOfInput

Spec == Init /\ [][Next]_vars

\* Direct calls on one family x.  Lines of the bare name and of the counter
\* total take the values 1, -1 and NaN; bucket and info lines take 1, and
\* one info line takes -1.  Each line comes without a timestamp and with
\* the timestamps 1 and 2.
FamilyTypeWords == {"counter", "gauge", "histogram", "stateset", "info"}

CallValues == {Int_(1), Int_(-1), Float_(NaN)}

CallTimestamps == {None, Some(Fin(2)), Some(Fin(4))}

CallSamples ==
    {SampleIn(n, v, l, t, None) :
        n \in {<<"x">>, <<"x", "_total">>}, v \in CallValues,
        l \in {<<>>, << <<"a", "1">> >>}, t \in CallTimestamps}
    \cup {SampleIn(<<"x", "_bucket">>, Int_(1), l, t, None) :
             l \in {<< <<"le", "+Inf">> >>, << <<"le", "1">>, <<"a", "1">> >>},
             t \in CallTimestamps}
    \cup {SampleIn(<<"x", "_info">>, Int_(1), l, t, None) :
             l \in {<<>>, << <<"a", "1">> >>}, t \in CallTimestamps}
    \cup {SampleIn(<<"x", "_info">>, Int_(-1), <<>>, None, None)}
    \cup {SampleIn(n, Int_(1), <<>>, Some(Fin(4)), Some(Exemplar_new)) :
             n \in {<<"x">>, <<"x", "_total">>, <<"x", "_bucket">>}}

TypeDecl == \E w \in FamilyTypeWords : DeclareType(<<"x">>, w)

CallLine == \E in \in CallSamples : Call(in)

NextFamily ==
    \/ TypeDecl
    \/ CallLine

SpecFamily == Init /\ [][NextFamily]_vars

\* Direct calls on one histogram or gaugehistogram family x, and its
\* validation.  Bucket lines have the bounds -1 and +Inf and the counts 1, 2
\* and NaN; sum lines have the values 1 and -1; count lines have the value 2.
HistTypeWords == {"histogram", "gaugehistogram"}

HistBounds == {"-1", "+Inf"}

HistCounts == {Int_(1), Int_(2), Float_(NaN)}

HistSamples ==
    {SampleIn(<<"x", "_bucket">>, v, << <<"le", b>> >>, None, None) :
        v \in HistCounts, b \in HistBounds}
    \cup {SampleIn(<<"x", sfx>>, v, <<>>, None, None) :
             sfx \in {"_sum", "_gsum"}, v \in {Int_(1), Int_(-1)}}
    \cup {SampleIn(<<"x", sfx>>, Int_(2), <<>>, None, None) : sfx \in {"_count", "_gcount"}}

HistTypeDecl == \E w \in HistTypeWords : DeclareType(<<"x">>, w)

HistLine == \E in \in HistSamples : CallUpTo(in, MaxHistLines)

NextHist ==
    \/ HistTypeDecl
    \/ HistLine
    \/ Validate

SpecHist == Init /\ [][NextHist]_vars

\* Direct calls on one family x of any declared type: the bare name and the
\* name with each suffix of the handler tables, without labels, lines that
\* carry the le or the quantile label, count and sum lines with the value
\* -1, a bucket line with the labels le and a, a sum line with the label
\* le, and a line whose name repeats the suffix _total.
PolicyTypeWords ==
    {"counter", "gauge", "histogram", "gaugehistogram", "summary", "unknown", "stateset", "info"}

PolicySuffixAtoms ==
    {"_total", "_created", "_bucket", "_count", "_sum", "_gcount", "_gsum", "_info"}

PolicySamples ==
    {SampleIn(<<"x">>, Int_(1), <<>>, None, None)}
    \cup {SampleIn(<<"x", sfx>>, Int_(1), <<>>, None, None) : sfx \in PolicySuffixAtoms}
    \cup {SampleIn(<<"x", "_bucket">>, Int_(1), << <<l, "1">> >>, None, None) :
             l \in {"le", "quantile"}}
    \cup {SampleIn(<<"x">>, Int_(1), << <<"quantile", "1">> >>, None, None)}
    \cup {SampleIn(<<"x", sfx>>, Int_(-1), <<>>, None, None) :
             sfx \in {"_count", "_gcount", "_sum"}}
    \cup {SampleIn(<<"x", "_bucket">>, Int_(1), << <<"le", "+Inf">>, <<"a", "1">> >>, None, None),
          SampleIn(<<"x", "_sum">>, Int_(1), << <<"le", "1">> >>, None, None),
          SampleIn(<<"x", "_total", "_total">>, Int_(1), <<>>, None, None)}

PolicyTypeDecl == \E w \in PolicyTypeWords : DeclareType(<<"x">>, w)

PolicyLine == \E in \in PolicySamples : Call(in)

NextPolicy ==
    \/ PolicyTypeDecl
    \/ PolicyLine

SpecPolicy == Init /\ [][NextPolicy]_vars

\* A caller parses a document of the family x, a gauge, a counter, a
\* histogram or an info, renders the returned exposition and parses the text again.
\* Values are the integers 1 and 2 and the float 1.0; lines come with the
\* label a or without labels, documents with and without HELP and UNIT
\* lines; bucket lines come with and without a timestamp and an exemplar.
RenderTypeWords == {"gauge", "counter", "histogram", "info"}

RenderSamples ==
    {SampleIn(<<"x">>, Int_(1), <<>>, None, None),
     SampleIn(<<"x">>, Float_(Fin(2)), <<>>, None, None),
     SampleIn(<<"x">>, Int_(1), << <<"a", "1">> >>, Some(Fin(2)), None),
     SampleIn(<<"x">>, Int_(2), << <<"a", "2">> >>, None, None),
     SampleIn(<<"x", "_total">>, Int_(1), <<>>, None, None),
     SampleIn(<<"x", "_info">>, Int_(1), << <<"a", "1">> >>, None, None)}
    \cup {SampleIn(<<"x", "_bucket">>, Int_(1), << <<"le", "+Inf">> >>, None, None),
          SampleIn(<<"x", "_bucket">>, Int_(1), << <<"le", "+Inf">> >>,
                   Some(Fin(2)), Some(Exemplar_new))}

RenderTypeLine == \E w \in RenderTypeWords : Descriptor("type", <<"x">>, w)

RenderSampleLine == \E in \in RenderSamples : Sample(in)

NextRender ==
    \/ HelpLine
    \/ RenderTypeLine
    \/ UnitLine
    \/ RenderSampleLine
    \/ EndFamily
    \/ EofLine
    \/ EndOfInput
    \/ RenderParse

SpecRender == Init /\ [][NextRender]_vars

\* A caller evaluates one operation on two MetricNumber operands: the
\* integers 0, 1 and 2 and the floats 0.5, 1.0 and 2.0, in the combinations
\* whose results are exact in halves.
ArithOps == {"add", "sub", "mul", "div"}

ArithOperands ==
    {Int_(0), Int_(1), Int_(2), Float_(Fin(1)), Float_(Fin(2)), Float_(Fin(4))}

ArithOp == \E op \in ArithOps, a, b \in ArithOperands : Arith(op, a, b)

NextNumber ==
    \/ ArithOp

SpecNumber == Init /\ [][NextNumber]_vars

\* A caller parses a document of one family x, a gauge or a histogram whose
\* samples carry the labels a and b, takes the family out of the returned
\* exposition or makes a new one, and applies the public operations to it.
ApiSamples ==
    {SampleIn(<<"x">>, Int_(1), l, None, None) :
        l \in {<< <<"a", "1">> >>, << <<"a", "2">> >>, << <<"a", "1">>, <<"b", "1">> >>}}
    \cup {SampleIn(<<"x", "_bucket">>, Int_(1), l, None, None) :
             l \in {<< <<"le", "+Inf">> >>, << <<"a", "1">>, <<"le", "+Inf">> >>}}

ApiLabelNames == {"a", "b"}

ApiLabelValues == {"1", "2"}

ApiLabelValueLists == {<<>>, <<"1">>, <<"2">>, <<"1", "1">>}

ApiTypeLine == \E w \in {"gauge", "histogram"} : Descriptor("type", <<"x">>, w)

ApiSampleLine == \E in \in ApiSamples : Sample(in)

NewFamily == \E names \in {<<>>, <<"a">>, <<"a", "b">>} : New(names)

AdoptFamily == \E n \in {<<"x">>} : Adopt(n)

AddSampleOp == \E values \in ApiLabelValueLists : AddSample(values)

WithSamplesOp ==
    \E v1, v2 \in ApiLabelValueLists : WithSamples(<<v1, v2>>)

WithLabelsOp ==
    \E k \in ApiLabelNames, v \in ApiLabelValues : WithLabels(<< <<k, v>> >>)

WithoutLabelOp == \E k \in ApiLabelNames : WithoutLabel(k)

SetLabelOp == \E k \in ApiLabelNames, v \in ApiLabelValues : SetLabel(k, v)

NextApi ==
    \/ ApiTypeLine
    \/ ApiSampleLine
    \/ EndFamily
    \/ EofLine
    \/ EndOfInput
    \/ NewFamily
    \/ AdoptFamily
    \/ AddSampleOp
    \/ WithSamplesOp
    \/ WithLabelsOp
    \/ WithoutLabelOp
    \/ SetLabelOp

SpecApi == Init /\ [][NextApi]_vars

\* ------------------------------------------------------------------------
\* Properties
\* ------------------------------------------------------------------------
unique_label_values(metrics) ==
    \A i, j \in 1..Len(metrics) : i # j => metrics[i].label_values # metrics[j].label_values

counts_match(f) ==
    \A i \in 1..Len(f.metrics) : Len(f.metrics[i].label_values) = Len(f.label_names)

\* The sample of f that the sample line `in` addresses: the line passes the
\* exemplar test, selects an action, has its mandatory labels, fits the
\* family's label names and name, and its identity label values are those
\* of f.metrics[k].  0 when the line addresses no sample of f.
Addressed(fm, f, in) ==
    LET parsed == parse_labels(in.labels)
        metric_type == unwrap_or_default(f.family_type)
        i == first_action(fm, metric_type, in.name)
        pre == before_lookup(fm, f, handlers(fm, metric_type)[i], metric_type, in.name,
                             LabelNamesOf(parsed.labels), LabelValuesOf(parsed.labels))
        hits == {k \in 1..Len(f.metrics) : f.metrics[k].label_values = pre.values}
    IN IF in.kind # "sample" \/ ~parsed.ok THEN 0
       ELSE IF ~can_have_exemplar(metric_type, in.name) /\ is_some(in.exemplar) THEN 0
       ELSE IF i = 0 THEN 0
       ELSE IF pre.res # "Ok" THEN 0
       ELSE IF hits = {} THEN 0
       ELSE CHOOSE k \in hits : \A j \in hits : k <= j

CallMade == call.res # "none"

StoredTimestamp == call.before.metrics[Addressed(fmt, call.before, line)].timestamp

\* C1: after any sequence of process_new_metric calls on one family no two
\* of its samples have equal label values, and a call whose line addresses
\* an existing sample leaves the number of samples as it was.
C1_UniqueIdentity ==
    /\ unique_label_values(family.metrics)
    /\ (CallMade /\ Addressed(fmt, call.before, line) # 0)
          => Len(family.metrics) = Len(call.before.metrics)

\* A second line for an existing sample was accepted and applied to it.
C1_Witness ==
    /\ CallMade /\ call.res = "Ok"
    /\ Addressed(fmt, call.before, line) # 0
    /\ Len(family.metrics) = Len(call.before.metrics)
    /\ family.metrics # call.before.metrics

\* C2: after any sequence of the public operations no two samples of the
\* MetricFamily have equal label values.
C2_UniqueLabelSets == is_some(mf) => unique_label_values(unwrap(mf).metrics)

\* C3: in every MetricFamily a caller can observe, one of a returned
\* exposition or one the public operations were applied to, every sample
\* has as many label values as the family has label names.
C3_LabelCounts ==
    /\ is_some(ret) => \A n \in DOMAIN unwrap(ret) : counts_match(unwrap(ret)[n])
    /\ is_some(mf) => counts_match(unwrap(mf))

\* A family taken from a parse had a label added to its samples.
C3_Witness ==
    /\ is_some(ret) /\ DOMAIN unwrap(ret) # {}
    /\ is_some(mf) /\ api.op = "with_labels" /\ api.res = "Ok"
    /\ Len(unwrap(mf).metrics) >= 1
    /\ Len(unwrap(mf).label_names) = 2

\* C4: parse_openmetrics and parse_prometheus never panic.
C4_NeverPanics == status # "Panic"

\* C5: parsing stops at the first event that fails: once an error is
\* returned nothing changes any more, the error of a failing sample line is
\* the one process_new_metric gave, and no exposition is returned.
C5_StopsAtFirstFailure ==
    [][/\ status = "Err" => UNCHANGED vars
       /\ status' = "Err" => ret' = None
       /\ (status = "parsing" /\ status' = "Err" /\ line'.kind = "sample")
             => err'.kind = parse_sample(fmt, family, line').res]_vars

\* A sample line failed after a family had been finalised: nothing returned.
C5_Witness ==
    /\ status = "Err" /\ ret = None
    /\ line.kind = "sample"
    /\ DOMAIN exposition # {}

\* C6: within one family, a descriptor line that comes after an accepted
\* sample line is rejected with InvalidMetric.
C6_DescriptorAfterSample ==
    (line.kind \in {"help", "type", "unit"} /\ nsamples > 0)
       => (status = "Err" /\ err.kind = "InvalidMetric")

\* A TYPE line came after an accepted sample and was rejected.
C6_Witness ==
    /\ line.kind = "type" /\ nsamples > 0
    /\ status = "Err" /\ err.reason = "Metric Descriptor after samples"

\* C7: a family inserted in the exposition is never replaced, merged or
\* removed, and finalising a family whose name is already there fails.
C7_KeysNeverReplaced ==
    [][/\ \A n \in DOMAIN exposition :
             n \in DOMAIN exposition' /\ exposition'[n] = exposition[n]
       /\ (/\ line'.kind = "end" /\ status = "parsing"
           /\ validate(family) = "Ok"
           /\ is_some(MetricFamily_from(family))
           /\ unwrap(MetricFamily_from(family)).name \in DOMAIN exposition)
             => (status' = "Err" /\ err'.kind = "InvalidMetric")]_vars

\* A second family of a finalised name was finalised: the parse failed.
C7_Witness ==
    /\ status = "Err" /\ line.kind = "end"
    /\ err.reason = "family was finalised"
    /\ DOMAIN exposition # {}

\* C8: a line that addresses an existing sample with a timestamp lower than
\* the stored one, or with a timestamp where the stored sample has none or
\* the reverse, fails with an error and leaves the samples unchanged.
C8_TimestampRejected ==
    (/\ CallMade /\ Addressed(fmt, call.before, line) # 0
     /\ \/ /\ is_some(StoredTimestamp) /\ is_some(line.timestamp)
           /\ FLt(unwrap(line.timestamp), unwrap(StoredTimestamp))
        \/ is_some(StoredTimestamp) # is_some(line.timestamp))
       => (call.res = "InvalidMetric" /\ family.metrics = call.before.metrics)

\* A line with timestamp 1 addressed a sample stored with timestamp 2.
C8_Witness ==
    /\ CallMade /\ Addressed(fmt, call.before, line) # 0
    /\ is_some(StoredTimestamp) /\ is_some(line.timestamp)
    /\ FLt(unwrap(line.timestamp), unwrap(StoredTimestamp))
    /\ call.res = "InvalidMetric"

\* C9: a line that addresses an existing sample, both with timestamps, the
\* new one not lower than the stored one, in a family of type Gauge,
\* Unknown, StateSet or Info, returns Ok and leaves the family unchanged.
C9_IgnoredLine ==
    (/\ CallMade /\ Addressed(fmt, call.before, line) # 0
     /\ is_some(StoredTimestamp) /\ is_some(line.timestamp)
     /\ FGe(unwrap(line.timestamp), unwrap(StoredTimestamp))
     /\ unwrap_or_default(call.before.family_type) \in {"Gauge", "Unknown", "StateSet", "Info"})
       => (call.res = "Ok" /\ family = call.before)

\* A gauge line with another value and a later timestamp was ignored.
C9_Witness ==
    /\ CallMade /\ Addressed(fmt, call.before, line) # 0
    /\ is_some(StoredTimestamp) /\ is_some(line.timestamp)
    /\ FGt(unwrap(line.timestamp), unwrap(StoredTimestamp))
    /\ call.before.family_type = Some("Gauge")
    /\ call.before.metrics[Addressed(fmt, call.before, line)].value.n # Some(line.value)
    /\ call.res = "Ok" /\ family = call.before

\* A sample line of a counter family that sets the total.
IsCounterTotalLine(fm, f, in) ==
    /\ in.kind = "sample"
    /\ unwrap_or_default(f.family_type) = "Counter"
    /\ fm = "om" => ends_with(in.name, "_total")

\* C10: a counter total line whose value is negative or NaN is never
\* accepted: process_new_metric returns an error.
C10_NegativeCounterRejected ==
    (/\ CallMade /\ IsCounterTotalLine(fmt, call.before, line)
     /\ FLt(as_f64(line.value), Fin(0)) \/ is_nan(as_f64(line.value)))
       => call.res \in {"InvalidMetric", "DuplicateMetric"}

\* A NaN total with a label and a timestamp reached the handler of a family
\* that already had a sample, and was rejected.
C10_Witness ==
    /\ CallMade /\ IsCounterTotalLine(fmt, call.before, line)
    /\ is_nan(as_f64(line.value))
    /\ line.labels # <<>> /\ is_some(line.timestamp)
    /\ Len(call.before.metrics) >= 1
    /\ Len(family.metrics) > Len(call.before.metrics)
    /\ call.res = "InvalidMetric"

\* The family was validated: call.res is the verdict on call.before.
Validated == line.kind = "validate"

IsHistogram(m) == m.value.kind \in {"Histogram", "GaugeHistogram"}

\* a <= b on f64: false when either side is NaN.
FLe(a, b) == ~is_nan(a) /\ ~is_nan(b) /\ FKey(a) <= FKey(b)

InfBuckets(buckets) == {i \in 1..Len(buckets) : FEq(buckets[i].upper_bound, INFINITY)}

\* C11: every histogram sample of a family that passes validation has at
\* least one bucket, and each bucket's count is <= the count of the bucket
\* that arrived after it.
C11_BucketsCumulative ==
    (Validated /\ call.res = "Ok")
       => \A i \in 1..Len(family.metrics) :
             IsHistogram(family.metrics[i])
                => LET buckets == family.metrics[i].value.h.buckets
                   IN /\ Len(buckets) >= 1
                      /\ \A k \in 1..(Len(buckets) - 1) :
                             FLe(as_f64(buckets[k].count), as_f64(buckets[k + 1].count))

\* C12: every histogram sample of a family that passes validation has
\* exactly one bucket whose upper bound is +Inf.
C12_OneInfBucket ==
    (Validated /\ call.res = "Ok")
       => \A i \in 1..Len(family.metrics) :
             IsHistogram(family.metrics[i])
                => Cardinality(InfBuckets(family.metrics[i].value.h.buckets)) = 1

\* C13: a validated family passes only if each of its histogram samples
\* has its sum and its count both present or both absent; a sample with
\* one of them and not the other makes validation fail with InvalidMetric.
C13_SumWithCount ==
    Validated
       => /\ call.res = "Ok"
                => \A i \in 1..Len(family.metrics) :
                      IsHistogram(family.metrics[i])
                         => (is_some(family.metrics[i].value.h.sum)
                                = is_some(family.metrics[i].value.h.count))
          /\ (\E i \in 1..Len(family.metrics) :
                 /\ IsHistogram(family.metrics[i])
                 /\ is_some(family.metrics[i].value.h.sum)
                       # is_some(family.metrics[i].value.h.count))
                => call.res = "InvalidMetric"

\* A histogram with a +Inf bucket, cumulative counts and a sum of 1 but no
\* count was rejected.
C13_Witness ==
    /\ Validated /\ call.res = "InvalidMetric"
    /\ Len(family.metrics) = 1 /\ IsHistogram(family.metrics[1])
    /\ LET hv == family.metrics[1].value.h
       IN /\ Len(hv.buckets) = 2
          /\ has_inf_bucket(hv.buckets) /\ ~has_negative_bucket(hv.buckets)
          /\ buckets_cumulative(hv.buckets)
          /\ hv.sum = Some(Int_(1)) /\ is_none(hv.count)

\* C14: in a family that passes validation, a histogram sample with a
\* bucket of negative upper bound has a sum only if it is a GaugeHistogram,
\* and one with no negative-bound bucket has no negative sum.
C14_SumAndNegativeBuckets ==
    (Validated /\ call.res = "Ok")
       => \A i \in 1..Len(family.metrics) :
             IsHistogram(family.metrics[i])
                => LET hv == family.metrics[i].value.h
                       negative == \E k \in 1..Len(hv.buckets) :
                                      FLt(hv.buckets[k].upper_bound, Fin(0))
                   IN /\ (negative /\ is_some(hv.sum))
                            => family.metrics[i].value.kind = "GaugeHistogram"
                      /\ (~negative /\ is_some(hv.sum))
                            => ~FLt(as_f64(unwrap(hv.sum)), Fin(0))

\* A gaugehistogram with a bucket of bound -1 and a sum of -1 was accepted.
C14_Witness ==
    /\ Validated /\ call.res = "Ok"
    /\ Len(family.metrics) = 1
    /\ family.metrics[1].value.kind = "GaugeHistogram"
    /\ has_negative_bucket(family.metrics[1].value.h.buckets)
    /\ family.metrics[1].value.h.sum = Some(Int_(-1))

\* The suffixes of a type's policy table.
PolicySuffixes(fm, ty) == {handlers(fm, ty)[i].suffix : i \in 1..Len(handlers(fm, ty))}

\* The suffix a sample name adds to the family name x: "" for the bare name.
LineSuffix(name) == IF Len(name) = 1 THEN "" ELSE name[2]

OutOfPolicy ==
    /\ CallMade /\ line.kind = "sample"
    /\ is_some(call.before.family_type)
    /\ call.before.name = Some(<<"x">>)
    /\ LineSuffix(line.name) \notin PolicySuffixes(fmt, unwrap(call.before.family_type))

\* C15: for every declared family type of either format, a sample line
\* whose name adds to the family name a suffix that is not in the type's
\* policy table makes process_new_metric fail with InvalidMetric.
C15_SuffixOutOfPolicy == OutOfPolicy => call.res = "InvalidMetric"

\* A _bucket line with the le label was rejected by a gauge family that
\* already had a sample.
C15_Witness ==
    /\ OutOfPolicy /\ call.res = "InvalidMetric"
    /\ call.before.family_type = Some("Gauge")
    /\ line.name = <<"x", "_bucket">> /\ line.labels # <<>>
    /\ Len(call.before.metrics) >= 1

\* C16: a family with a declared unit and no sample is not finalised: every
\* family of the exposition that has a unit has at least one sample.
C16_UnitNeedsSamples ==
    \A n \in DOMAIN exposition :
        is_some(exposition[n].unit) => Len(exposition[n].metrics) >= 1

\* C17: every finalised family that has a unit has a type that allows
\* units, whatever the order of its TYPE and UNIT lines.
C17_UnitOnlyForUnitTypes ==
    \A n \in DOMAIN exposition :
        is_some(exposition[n].unit) => is_allowed_units(exposition[n].family_type)

\* C18: parsing the rendering of an exposition that a parse returned
\* succeeds and yields the families of that exposition.
C18_RoundTrip ==
    api.op = "render_parse" => (api.res = "Ok" /\ api.families = unwrap(ret))

IsStateSetLine ==
    /\ CallMade /\ line.kind = "sample"
    /\ call.before.family_type = Some("StateSet")

\* The line has no labels, or a value other than 0 and 1.
BadStateSetLine ==
    \/ line.labels = <<>>
    \/ ~FEq(as_f64(line.value), Fin(0)) /\ ~FEq(as_f64(line.value), Fin(2))

\* Every sample of the family before the call has a value: no earlier call
\* failed in its handler.
AllStored == \A i \in 1..Len(call.before.metrics) : is_some(call.before.metrics[i].value.n)

\* C19 as stated: every StateSet line with no labels or with a value other
\* than 0 and 1 fails with InvalidMetric (here for a family all of whose
\* earlier lines were accepted).
C19_Original ==
    (IsStateSetLine /\ AllStored /\ BadStateSetLine) => call.res = "InvalidMetric"

\* C19: a StateSet line is stored only if it has a label and its value is
\* 0 or 1, and a line with no labels or with another value that addresses
\* no existing sample fails with InvalidMetric.  (A line for an existing
\* sample is answered by the timestamp rule or by DuplicateMetric before
\* its labels and value are looked at.)
C19_StateSetLine ==
    IsStateSetLine
       => /\ (call.res = "Ok" /\ family # call.before) => ~BadStateSetLine
          /\ (BadStateSetLine /\ Addressed(fmt, call.before, line) = 0)
                => call.res = "InvalidMetric"
          /\ \A i \in 1..Len(family.metrics) :
                is_some(family.metrics[i].value.n)
                   => /\ family.metrics[i].label_values # <<>>
                      /\ \/ FEq(as_f64(unwrap(family.metrics[i].value.n)), Fin(0))
                         \/ FEq(as_f64(unwrap(family.metrics[i].value.n)), Fin(2))

\* The first line of the label set a="1" had the value -1 and was rejected.
C19_Witness ==
    /\ IsStateSetLine /\ Addressed(fmt, call.before, line) = 0
    /\ line.name = <<"x">> /\ line.labels # <<>> /\ line.value = Int_(-1)
    /\ call.res = "InvalidMetric"

IsInfoLine ==
    /\ CallMade /\ line.kind = "sample"
    /\ call.before.family_type = Some("Info")
    /\ ends_with(line.name, "_info")

C21_EofRequired ==
    /\ (fmt = "om" /\ status = "Ok") => found_eof
    /\ (line.kind = "eof" /\ line.arg \notin {<<>>, <<"\n">>})
          => (status = "Err" /\ is_none(ret) /\ ~found_eof)
    /\ (line.kind = "eoi" /\ fmt = "om" /\ ~found_eof) => (status = "Err" /\ is_none(ret))

\* A document of one family whose EOF token is followed by two newlines
\* was refused.
C21_Witness ==
    /\ line.kind = "eof" /\ line.arg = <<"\n", "\n">>
    /\ exposition # <<>>
    /\ status = "Err" /\ err.kind = "InvalidMetric"

\* C22: a op b on MetricNumber operands is an Int exactly when both
\* operands are Int and a Float otherwise, and its value is a op b with a
\* as the left operand.
C22_Arithmetic ==
    api.op \in ArithOps =>
        /\ api.res = "Ok"
        /\ api.value.tag = (IF api.a.tag = "Int" /\ api.b.tag = "Int" THEN "Int" ELSE "Float")
        /\ api.value.tag = "Float" =>
              api.value.f = f64_op(api.op, as_f64(api.a), as_f64(api.b))
        /\ api.value.tag = "Int" =>
              api.value.i = (CASE api.op = "add" -> api.a.i + api.b.i
                               [] api.op = "sub" -> api.a.i - api.b.i
                               [] api.op = "mul" -> api.a.i * api.b.i
                               [] api.op = "div" -> api.a.i \div api.b.i)

\* Removing the idx-th value would give two samples of f the same values.
RemovalCollides(f, idx) ==
    \E i, j \in 1..Len(f.metrics) :
        /\ i # j
        /\ remove(f.metrics[i].label_values, idx) = remove(f.metrics[j].label_values, idx)

\* g is f without the label L: L is gone from the names, the other names
\* keep their order, and every sample keeps its timestamp, its value and
\* the values of the other labels.
IsWithoutLabel(f, g, L) ==
    /\ ~contains(g.label_names, L)
    /\ g.label_names = filter_not_in(f.label_names, <<L>>)
    /\ Len(g.metrics) = Len(f.metrics)
    /\ \A i \in 1..Len(f.metrics) :
          /\ g.metrics[i].timestamp = f.metrics[i].timestamp
          /\ g.metrics[i].value = f.metrics[i].value
          /\ Len(g.metrics[i].label_values) = Len(g.label_names)
          /\ get_label_value(g.label_names, g.metrics[i].label_values, L) = None
          /\ \A k \in 1..Len(f.label_names) :
                f.label_names[k] # L =>
                    get_label_value(g.label_names, g.metrics[i].label_values, f.label_names[k])
                        = Some(f.metrics[i].label_values[k])

\* C23: without_label(L) succeeds exactly when L is a label of the family
\* and removing it leaves the samples' label values distinct; then the
\* returned family is the receiver without L on its names and samples.
\* Otherwise it returns InvalidMetric and the caller keeps the receiver as it
\* was.
C23_WithoutLabel ==
    [][(api'.op = "without_label" /\ nops' = nops + 1) =>
          LET f == unwrap(mf)
              g == unwrap(mf')
              L == api'.label_name
              idx == position(f.label_names, L)
          IN /\ api'.res \in {"Ok", "InvalidMetric"}
             /\ api'.res = "Ok" <=> (idx # 0 /\ ~RemovalCollides(f, idx))
             /\ api'.res = "Ok" => IsWithoutLabel(f, g, L)
             /\ api'.res # "Ok" => g = f]_vars

\* A label was removed from a family with two labels and a sample.
C23_Witness ==
    /\ api.op = "without_label" /\ api.res = "Ok"
    /\ Len(unwrap(mf).label_names) = 1
    /\ Len(unwrap(mf).metrics) > 0

\* Place of a rendered line in a family's text.
LineRank(l) ==
    CASE l.kind = "help" -> 1
      [] l.kind = "type" -> 2
      [] l.kind = "unit" -> 3
      [] l.kind = "sample" -> 4

\* The lines of the given kind in a family's text.
LinesOfKind(lines, kind) == {i \in 1..Len(lines) : lines[i].kind = kind}

\* The text of the family f: HELP, TYPE and UNIT lines come in this order
\* before the samples, each at most once and exactly when the field is set
\* (the type: when it is not the default), and the lines of the samples
\* follow the order of f.metrics.
RenderedInOrder(f, lines) ==
    /\ \A i, j \in 1..Len(lines) : i < j => LineRank(lines[i]) <= LineRank(lines[j])
    /\ Cardinality(LinesOfKind(lines, "help")) = (IF is_some(f.help) THEN 1 ELSE 0)
    /\ Cardinality(LinesOfKind(lines, "type")) = (IF f.family_type # "Unknown" THEN 1 ELSE 0)
    /\ Cardinality(LinesOfKind(lines, "unit")) = (IF is_some(f.unit) THEN 1 ELSE 0)
    /\ \A i \in LinesOfKind(lines, "help") : lines[i].arg = unwrap(f.help)
    /\ \A i \in LinesOfKind(lines, "unit") : lines[i].arg = unwrap(f.unit)
    /\ \A k \in 1..Len(f.metrics) : \E i \in LinesOfKind(lines, "sample") :
          contains(Sample_render(f.metrics[k], f.name, f.label_names), lines[i])
    /\ \A i, j \in LinesOfKind(lines, "sample") : \A k, l \in 1..Len(f.metrics) :
          (/\ i < j
           /\ contains(Sample_render(f.metrics[k], f.name, f.label_names), lines[i])
           /\ contains(Sample_render(f.metrics[l], f.name, f.label_names), lines[j])) => k <= l

\* C24: the rendering of every family of a returned exposition has its
\* lines in the order HELP, TYPE, UNIT, samples as stored; HELP is written
\* only for a non-empty help, TYPE only for a type other than unknown, UNIT
\* only for a non-empty unit.
C24_RenderOrder ==
    api.op = "render_parse" =>
        \A n \in DOMAIN unwrap(ret) :
            RenderedInOrder(unwrap(ret)[n], MetricFamily_to_string(unwrap(ret)[n]))

\* A family with help, a declared type, a unit and two samples was rendered.
C24_Witness ==
    /\ api.op = "render_parse"
    /\ \E n \in DOMAIN unwrap(ret) :
          /\ is_some(unwrap(ret)[n].help)
          /\ unwrap(ret)[n].family_type # "Unknown"
          /\ is_some(unwrap(ret)[n].unit)
          /\ Len(unwrap(ret)[n].metrics) = 2

\* C25: every sample line in the rendering of an Info family has the family
\* name followed by _info, and the value 1.
C25_InfoRendered ==
    api.op = "render_parse" =>
        \A n \in DOMAIN unwrap(ret) :
            LET f == unwrap(ret)[n]
                lines == MetricFamily_to_string(f)
            IN f.family_type = "Info" =>
                  \A i \in LinesOfKind(lines, "sample") :
                      /\ lines[i].name = f.name \o <<"_info">>
                      /\ lines[i].value = Int_(1)

\* The first sample line of the family in progress has just been accepted.
FirstSampleAccepted == status = "parsing" /\ line.kind = "sample" /\ nsamples = 1

\* The names are in ascending byte order.
SortedByName(names) ==
    \A i, j \in 1..Len(names) : i < j => LabelRank(names[i]) < LabelRank(names[j])

TargetHandler ==
    LET ty == unwrap_or_default(call.before.family_type)
    IN handlers(fmt, ty)[first_action(fmt, ty, line.name)].h

\* The sub-field of the metric m that the handler h fills, as an Option;
\* None for the handlers that append (buckets, quantiles) or store nothing.
SubField(h, m) ==
    CASE h = "counter_total" -> m.value.c.value
      [] h = "counter_created" -> m.value.c.created
      [] h \in {"hist_count", "ghist_count"} -> m.value.h.count
      [] h \in {"hist_sum", "ghist_sum"} -> m.value.h.sum
      [] h = "hist_created" -> m.value.h.timestamp
      [] h \in {"gauge", "unknown", "stateset"} -> m.value.n
      [] h = "summary_count" -> m.value.s.count
      [] h = "summary_sum" -> m.value.s.sum
      [] OTHER -> None

\* The handlers whose sub-field lies in the value of a metric of this kind.
FieldHandlers(kind) ==
    CASE kind = "Counter" -> {"counter_total", "counter_created"}
      [] kind = "Histogram" -> {"hist_count", "hist_sum", "hist_created"}
      [] kind = "GaugeHistogram" -> {"ghist_count", "ghist_sum"}
      [] kind = "Gauge" -> {"gauge"}
      [] kind = "Unknown" -> {"unknown"}
      [] kind = "StateSet" -> {"stateset"}
      [] kind = "Summary" -> {"summary_count", "summary_sum"}
      [] OTHER -> {}

\* The last line addressed an existing sample, was handed to its handler,
\* and the handler's sub-field of that sample was populated.
HitsPopulatedField ==
    /\ CallMade /\ Addressed(fmt, call.before, line) # 0
    /\ timestamp_match(StoredTimestamp, line.timestamp,
                       unwrap_or_default(call.before.family_type)) = "Use"
    /\ is_some(SubField(TargetHandler, call.before.metrics[Addressed(fmt, call.before, line)]))

\* No call changes a populated sub-field of a sample.
PopulatedFieldsKept ==
    CallMade =>
        \A k \in 1..Len(call.before.metrics) :
            \A h \in FieldHandlers(call.before.metrics[k].value.kind) :
                is_some(SubField(h, call.before.metrics[k]))
                    => SubField(h, family.metrics[k]) = SubField(h, call.before.metrics[k])

\* The count handlers test the value for an integer that is not negative,
\* and the summary sum handler for a number that is not negative, before
\* they look at the stored field.
ValueRejectedFirst(h, v) ==
    \/ /\ h \in {"hist_count", "ghist_count", "summary_count"}
       /\ (is_none(as_i64(v)) \/ unwrap(as_i64(v)) < 0)
    \/ /\ h = "summary_sum"
       /\ (FLt(as_f64(v), Fin(0)) \/ is_nan(as_f64(v)))

\* C27 as stated: a line handed to the handler of a populated sub-field is
\* answered with DuplicateMetric, and no populated sub-field changes.
C27_Original ==
    /\ HitsPopulatedField => call.res = "DuplicateMetric"
    /\ PopulatedFieldsKept

\* C27: a line handed to the handler of a populated sub-field fails: with
\* InvalidMetric when the handler is a count or the summary sum handler and
\* rejects the value, with DuplicateMetric otherwise; no populated sub-field
\* is changed by any line.
C27_DuplicateField ==
    /\ HitsPopulatedField =>
          call.res = (IF ValueRejectedFirst(TargetHandler, line.value)
                      THEN "InvalidMetric" ELSE "DuplicateMetric")
    /\ PopulatedFieldsKept

\* A second count line for a histogram sample was refused as a duplicate.
C27_Witness ==
    /\ HitsPopulatedField
    /\ TargetHandler = "hist_count"
    /\ call.res = "DuplicateMetric"

\* The mandatory labels of the action the last line was routed to.
MandatoryOf ==
    LET ty == unwrap_or_default(call.before.family_type)
    IN handlers(fmt, ty)[first_action(fmt, ty, line.name)].mandatory

\* The last call was for a sample line that passed the exemplar test and
\* was routed to an action with a mandatory label.
RoutedToMandatory ==
    /\ CallMade /\ line.kind = "sample"
    /\ ~(/\ ~can_have_exemplar(unwrap_or_default(call.before.family_type), line.name)
         /\ is_some(line.exemplar))
    /\ first_action(fmt, unwrap_or_default(call.before.family_type), line.name) # 0
    /\ MandatoryOf # <<>>

\* The parsed labels of the last line without the mandatory label.
OtherLabels ==
    SelectSeq(parse_labels(line.labels).labels, LAMBDA p : p[1] # MandatoryOf[1])

\* The value of the mandatory label on the last line, as an f64.
MandatoryBound ==
    LET labels == parse_labels(line.labels).labels
    IN unwrap(ParseF64(LabelValuesOf(labels)[position(LabelNamesOf(labels), MandatoryOf[1])]))

\* The sample the accepted last line went to.
TargetSample ==
    family.metrics[IF Addressed(fmt, call.before, line) # 0
                   THEN Addressed(fmt, call.before, line) ELSE Len(family.metrics)]

MissingEstablishedName ==
    \E i \in 1..Len(unwrap(call.before.label_names).names) :
        LET n == unwrap(call.before.label_names).names[i]
        IN /\ ~contains(get_ignored_labels(fmt, unwrap_or_default(call.before.family_type),
                                           line.name), n)
           /\ ~contains(LabelNamesOf(line.labels), n)

\* The label names of the last line in ascending order, without the
\* mandatory labels of its action and the labels ignored for its name.
IdentityNames ==
    LabelNamesOf(SelectSeq(parse_labels(line.labels).labels,
        LAMBDA p : /\ ~contains(MandatoryOf, p[1])
                   /\ ~contains(get_ignored_labels(fmt,
                          unwrap_or_default(call.before.family_type), line.name), p[1])))

\* C29: the first accepted sample line gives the family its label names; a
\* later line that lacks an established name, other than one ignored for
\* its sample name, returns InvalidMetric; established names never change.
C29_LabelNamesFixed ==
    CallMade =>
        /\ (is_none(call.before.label_names) /\ call.res = "Ok") =>
              /\ is_some(family.label_names)
              /\ unwrap(family.label_names).names = IdentityNames
        /\ is_some(call.before.label_names) =>
              /\ family.label_names = call.before.label_names
              /\ MissingEstablishedName =>
                    (call.res = "InvalidMetric" /\ family = call.before)

\* A line without the established label a was refused.
C29_Witness ==
    /\ CallMade /\ is_some(call.before.label_names)
    /\ Len(call.before.metrics) > 0
    /\ MissingEstablishedName
    /\ first_action(fmt, unwrap_or_default(call.before.family_type), line.name) # 0
    /\ call.res = "InvalidMetric"

\* The name a line gives for its family: the name of a HELP or TYPE line,
\* the name of a sample line without the suffix of the action it is routed
\* to under the type ty.
FamilyNameOf(ty, l) ==
    LET i == first_action(fmt, ty, l.name)
        suffix == handlers(fmt, ty)[i].suffix
    IN IF l.kind # "sample" \/ i = 0 THEN l.name
       ELSE IF suffix # "" /\ Len(l.name) > 0 /\ Last(l.name) = suffix THEN Front(l.name)
       ELSE l.name

\* What the line l does to the family f in progress.
Handled(f, l) ==
    IF l.kind = "sample" THEN parse_sample(fmt, f, l)
    ELSE parse_metric_descriptor(fmt, f, l.kind, l.name, l.arg)

\* C30: a HELP, TYPE or sample line whose family name differs from the
\* established one makes the parse fail with InvalidMetric and leaves the
\* name of the family as it was; an accepted line leaves the family with
\* the line's family name, which sets it when none was established.
C30_FamilyName ==
    [][line'.kind \in {"help", "type", "sample"} =>
          LET n == FamilyNameOf(unwrap_or_default(family.family_type), line')
          IN /\ (is_some(family.name) /\ unwrap(family.name) # n) =>
                   /\ status' = "Err" /\ err'.kind = "InvalidMetric"
                   /\ Handled(family, line').family.name = family.name
             /\ status' = "parsing" => family'.name = Some(n)]_vars

\* A sample line named y was refused in a family that had accepted a sample.
C30_Witness ==
    /\ status = "Err" /\ err.kind = "InvalidMetric"
    /\ line.kind = "sample" /\ line.name = <<"y">>
    /\ nsamples > 0

\* The type and the name of the last line allow an exemplar.
ExemplarAllowed ==
    LET ty == unwrap_or_default(call.before.family_type)
        sfx == IF Len(line.name) > 0 THEN Last(line.name) ELSE ""
    IN \/ ty = "Counter" /\ sfx = "_total"
       \/ ty \in {"Histogram", "GaugeHistogram"} /\ sfx = "_bucket"

\* C31: a call whose line carries an exemplar that the family type and the
\* sample name do not allow returns InvalidMetric and leaves the family as
\* it was before the call.
C31_ExemplarRejected ==
    (CallMade /\ line.kind = "sample" /\ is_some(line.exemplar) /\ ~ExemplarAllowed)
        => (call.res = "InvalidMetric" /\ family = call.before)

\* A line with an exemplar was refused by a family that has a sample, for a
\* name that selects a handler of the family's type.
C31_Witness ==
    /\ CallMade /\ line.kind = "sample" /\ is_some(line.exemplar) /\ ~ExemplarAllowed
    /\ Len(call.before.metrics) > 0
    /\ first_action(fmt, unwrap_or_default(call.before.family_type), line.name) # 0
    /\ call.res = "InvalidMetric"

\* C32: every sample of the family in progress holds the value variant of
\* the family's type, Unknown when no TYPE line was taken, and no sample
\* line ends in a panic.
C32_ValueVariant ==
    /\ \A i \in 1..Len(family.metrics) :
          family.metrics[i].value.kind = unwrap_or_default(family.family_type)
    /\ line.kind = "sample" => status # "Panic"

\* A second line was handled on the existing sample of a family with a
\* declared type.
C32_Witness ==
    /\ status = "parsing" /\ line.kind = "sample"
    /\ is_some(family.family_type)
    /\ nsamples = 2 /\ Len(family.metrics) = 1

\* Events of the family in progress have been processed, all with success.
InProgress == status = "parsing" /\ open

\* C33: once an event of a family has been processed with success the
\* family has a name, and a family with samples has label names; so
\* neither the unwrap of the label names in the validation of a sample nor
\* the test of the name in the conversion of the family fails.
C33_NameAndLabelNamesSet ==
    InProgress =>
        /\ is_some(family.name)
        /\ Len(family.metrics) > 0 => is_some(family.label_names)
        /\ \A i \in 1..Len(family.metrics) :
              MetricMarshal_validate(family.metrics[i], family) # "Panic"

\* A family whose only event is a sample line: the line gave it its name
\* and its label names.
C33_Witness ==
    /\ InProgress /\ line.kind = "sample"
    /\ is_none(family.family_type) /\ is_none(family.help)
    /\ Len(family.metrics) = 1 /\ nsamples = 1
    /\ is_some(family.name) /\ is_some(family.label_names)

\* The last call was accepted and changed the family.
LastLineApplied ==
    /\ CallMade /\ call.res = "Ok" /\ family # call.before
    /\ line.kind = "sample"

\* C34: a call whose line addresses the sample that the line accepted just
\* before it addressed, with a timestamp lower than that line's, is
\* rejected.
C34_TimestampsNonDecreasing ==
    [][(/\ ncalls' = ncalls + 1
        /\ LastLineApplied
        /\ is_some(line.timestamp) /\ is_some(line'.timestamp)
        /\ Addressed(fmt, family, line) # 0
        /\ Addressed(fmt, family, line') = Addressed(fmt, family, line)
        /\ FLt(unwrap(line'.timestamp), unwrap(line.timestamp)))
          => call'.res # "Ok"]_vars

\* The number of characters of a suffix of the handler tables.
SuffixLen(suffix) ==
    CASE suffix = "" -> 0
      [] suffix = "_sum" -> 4
      [] suffix \in {"_gsum", "_info"} -> 5
      [] suffix \in {"_total", "_count"} -> 6
      [] suffix \in {"_bucket", "_gcount"} -> 7
      [] suffix = "_created" -> 8

\* The entries of the table of the family's type whose suffix ends the name
\* of the last line.
MatchingActions ==
    LET acts == handlers(fmt, unwrap_or_default(call.before.family_type))
    IN {i \in 1..Len(acts) : ends_with(line.name, acts[i].suffix)}

\* The matching entry with the longest suffix.
LongestMatch ==
    LET acts == handlers(fmt, unwrap_or_default(call.before.family_type))
    IN CHOOSE i \in MatchingActions :
          \A j \in MatchingActions : SuffixLen(acts[i].suffix) >= SuffixLen(acts[j].suffix)

\* The last call was a sample line that passed the exemplar test and whose
\* name ends with a suffix of the table.
Routed ==
    /\ CallMade /\ line.kind = "sample"
    /\ ~(is_some(line.exemplar)
         /\ ~can_have_exemplar(unwrap_or_default(call.before.family_type), line.name))
    /\ MatchingActions # {}

\* C35: the outcome of a call is the outcome of the entry with the longest
\* suffix that the name ends with, and of that entry alone; it is the first
\* matching entry in list order, and no other matching entry has a suffix
\* of the same length.
C35_LongestSuffixHandler ==
    Routed =>
        LET metric_type == unwrap_or_default(call.before.family_type)
            acts == handlers(fmt, metric_type)
            parsed == parse_labels(line.labels)
            r == apply_action(fmt, call.before, acts[LongestMatch], metric_type,
                              line.name, line.value, LabelNamesOf(parsed.labels),
                              LabelValuesOf(parsed.labels), line.timestamp, line.exemplar)
        IN /\ call.res = r.res /\ family = r.family
           /\ \A j \in MatchingActions : LongestMatch <= j
           /\ \A j \in MatchingActions \ {LongestMatch} :
                 SuffixLen(acts[j].suffix) < SuffixLen(acts[LongestMatch].suffix)

\* A _count line of a summary family, whose name ends with the suffixes
\* _count and "", was accepted.
C35_Witness ==
    /\ Routed /\ call.res = "Ok"
    /\ call.before.family_type = Some("Summary")
    /\ line.name = <<"x", "_count">>
    /\ Cardinality(MatchingActions) = 2

\* C36: an accepted sample line leaves the family with the base name of the
\* line, which is the line's name without one trailing occurrence of the
\* suffix of its handler.
C36_BaseNameTrimmedOnce ==
    (CallMade /\ line.kind = "sample" /\ call.res = "Ok")
        => family.name = Some(FamilyNameOf(unwrap_or_default(call.before.family_type), line))

\* C37: a UNIT line is accepted only in a family without samples whose name
\* a HELP or TYPE line has set, and only with that name; a UNIT line that
\* is the first line of a family fails with InvalidMetric, and the family
\* its handling leaves has neither a name nor a unit.
C37_UnitAfterName ==
    [][line'.kind = "unit" =>
          /\ status' = "parsing" =>
                /\ family.name = Some(line'.name)
                /\ is_some(family.help) \/ is_some(family.family_type)
                /\ Len(family.metrics) = 0
          /\ ~open =>
                /\ status' = "Err" /\ err'.kind = "InvalidMetric"
                /\ LET r == Handled(family, line')
                   IN is_none(r.family.name) /\ is_none(r.family.unit)]_vars

\* A UNIT line was refused as the first line of the second family of a
\* document.
C37_Witness ==
    /\ status = "Err" /\ err.kind = "InvalidMetric"
    /\ line.kind = "unit" /\ ~open
    /\ DOMAIN exposition # {}

\* C38: an accepted counter line that carries an exemplar leaves that
\* exemplar in the counter value of the sample it addresses.
C38_CounterExemplarRecorded ==
    (/\ CallMade /\ line.kind = "sample" /\ call.res = "Ok"
     /\ call.before.family_type = Some("Counter")
     /\ is_some(line.exemplar)
     /\ Addressed(fmt, family, line) # 0)
        => family.metrics[Addressed(fmt, family, line)].value.c.exemplar = line.exemplar

\* C39: with_labels returns a family for every receiver and every list of
\* labels: it never panics.
C39_WithLabelsNeverPanics == api.op = "with_labels" => api.res = "Ok"

\* The field of the family that a descriptor line of this kind writes.
DescriptorField(f, kind) ==
    CASE kind = "help" -> f.help
      [] kind = "type" -> f.family_type
      [] kind = "unit" -> f.unit

\* C40: a HELP, TYPE or UNIT line handled on a family that has the line's
\* field already ends the parse with InvalidMetric and the family its
\* handling leaves has the field as it was; and no step that goes on with
\* the family changes a help, a type or a unit that is set.
C40_DescriptorOnce ==
    [][/\ (line'.kind \in {"help", "type", "unit"}
           /\ is_some(DescriptorField(family, line'.kind))) =>
             /\ status' = "Err" /\ err'.kind = "InvalidMetric"
             /\ DescriptorField(Handled(family, line').family, line'.kind)
                   = DescriptorField(family, line'.kind)
       /\ (status' = "parsing" /\ line'.kind \in {"help", "type", "unit", "sample"}) =>
             \A kind \in {"help", "type", "unit"} :
                 is_some(DescriptorField(family, kind))
                    => DescriptorField(family', kind) = DescriptorField(family, kind)]_vars

\* A TYPE line with the name x and a type word was refused by a family
\* without samples: the family had a type.
C40_Witness ==
    /\ status = "Err" /\ err.kind = "InvalidMetric" /\ err.reason = ""
    /\ line.kind = "type" /\ line.name = <<"x">> /\ line.arg = "gauge"
    /\ open /\ nsamples = 0

====
